---- MODULE Spec2Model ----
(***************************************************************************)
(* A model of the NSE technical-analysis screener: the symbol list, the    *)
(* fetch with retries, validate_stock_data and the filter                  *)
(* (src/src/data_fetcher.py), calculate_rsi_signals,                       *)
(* calculate_macd_signals, analyze_stock_with_talib                        *)
(* (src/src/technical_indicators.py) and the run (src/src/main.py).        *)
(*                                                                         *)
(* Floating point values are modelled as tagged records so that NaN and    *)
(* None keep their Python/IEEE behaviour: every ordered comparison with    *)
(* NaN is false.  Prices and indicator values are small integers.          *)
(*                                                                         *)
(* The specifications share the variables:                                 *)
(*   SpecRSI      calls calculate_rsi_signals on one value;                *)
(*   SpecMACD     calls calculate_macd_signals on three arrays;            *)
(*   SpecValidate calls validate_stock_data on one DataFrame;              *)
(*   Spec         runs analyze_stock_with_talib on one DataFrame;          *)
(*   SpecSingle   runs analyze_single_stock_optimized (src/src/main.py);   *)
(*   SpecBatch    runs a batch: run_analysis_and_send_report or            *)
(*                analyze_multiple_stocks;                                 *)
(*   SpecTwice    invokes analyze_stock_with_talib twice on one input;     *)
(*   SpecTrend    runs it on declining and rising series;                  *)
(*   SpecWarmup   runs it on series of several lengths and periods;        *)
(*   SpecFetch    runs fetch_complete_stock_data (SpecFetchFair: to its    *)
(*                end);                                                    *)
(*   SpecSymbols  runs get_nse_stock_symbols;                              *)
(*   SpecFilter   runs filter_and_fetch_stocks_efficiently;                *)
(*   SpecEdge     calls calculate_macd_signals on every prefix of a line.  *)
(***************************************************************************)
EXTENDS Integers, Sequences, FiniteSets, TLC

VARIABLES
    cfg,        \* the global config object (the fields the core reads)
    symbol,     \* the symbol argument
    data,       \* the DataFrame argument
    pad,        \* whether Series.pct_change forward-fills NaN (pandas version)
    args,       \* the arguments of a classifier called on its own
    pc,         \* position in the function being run
    calls,      \* the calls made so far, in order
    log,        \* the records handed to the logger, in order
    ind,        \* the arrays returned by TA-Lib
    result,     \* the value returned
    raised,     \* TRUE when an exception left the function
    stock_info, \* the stock_info argument of analyze_single_stock_optimized
    analysis,   \* the value analyze_single_stock_optimized returns
    entry,      \* the function that runs the batch
    max_workers,             \* the size of the analysis thread pool
    filtered_symbols,        \* the symbols submitted to the pool, in order
    historical_data_dict,    \* symbol -> DataFrame (stock_data_map)
    stock_info_map,          \* symbol -> stock_info
    futures,                 \* the futures, in submission order
    completed,               \* the futures in the order they completed
    current,                 \* the future the collecting loop is at
    processed_count,
    total_analyzed,
    companies_with_signals,
    results,                 \* the dict analyze_multiple_stocks fills
    returned,                \* what run_analysis_and_send_report returns
    first,      \* what the first of two invocations on the same input returned
    talib,      \* TA-Lib as a function: what it does for the close series
    periods,    \* the periods TA-Lib is called with: RSI, fast, slow, signal
    include_info,   \* the include_info argument of fetch_complete_stock_data
    attempt,        \* the loop variable of fetch_complete_stock_data
    sleeps,         \* the seconds slept between attempts, in order
    fetched,        \* the pair fetch_complete_stock_data returns
    symbol_limit,       \* the symbol_limit argument of get_nse_stock_symbols
    web_symbols,        \* what fetch_nse_equity_list returns when called
    fallback_symbols,   \* what get_fallback_nse_symbols returns when called
    symbols,            \* the symbol list returned, then the list fetched
    data_source,        \* the data source flag returned
    stock_info_list,    \* the infos filter_and_fetch_stocks_efficiently returns
    failed_count        \* its count of the symbols that failed

\* the variables of one task called on its own
single == <<stock_info, analysis>>

\* the variables of a batch
batch == <<entry, max_workers, filtered_symbols, historical_data_dict, stock_info_map, futures, completed, current, processed_count, total_analyzed, companies_with_signals, results, returned>>

\* the variables of an invocation with TA-Lib fixed, and of its repetition
twice == <<first, talib, periods>>

\* the variables of get_nse_stock_symbols
acquire == <<symbol_limit, web_symbols, fallback_symbols, symbols, data_source>>

\* the variables of filter_and_fetch_stocks_efficiently
filtering == <<stock_info_list, failed_count>>

\* the variables of the functions that acquire symbols and prices
io == <<include_info, attempt, sleeps, fetched, acquire, filtering>>

\* the variables of the functions that call the core
outer == <<single, batch, twice, io>>

vars == <<cfg, symbol, data, pad, args, pc, calls, log, ind, result, raised, outer>>

----------------------------------------------------------------------------
(* Bounds of the model. *)

\* the longest price series (10 bars are needed for a 10% NaN fraction)
MaxBars == 10
\* how many bars of a series handed to validate_stock_data differ from the base price
MaxSpecial == 2
\* the longest array handed to calculate_macd_signals on its own
MaxLen == 2

----------------------------------------------------------------------------
(* Values: float, NaN, None. *)

Num(x) == [k |-> "num", v |-> x]
NaN == [k |-> "nan", v |-> 0]
None == [k |-> "none", v |-> 0]

\* np.isnan
IsNaN(x) == x.k = "nan"

\* a < b, a > b, a <= b, a >= b on floats: false when either side is NaN
FLt(a, b) == a.k = "num" /\ b.k = "num" /\ a.v < b.v
FGt(a, b) == a.k = "num" /\ b.k = "num" /\ a.v > b.v
FLe(a, b) == a.k = "num" /\ b.k = "num" /\ a.v <= b.v
FGe(a, b) == a.k = "num" /\ b.k = "num" /\ a.v >= b.v

\* a - b on floats: NaN when either side is NaN
FSub(a, b) == IF a.k = "num" /\ b.k = "num" THEN Num(a.v - b.v) ELSE NaN

\* arr[-1] and arr[-2]
Last(s) == s[Len(s)]
Prev(s) == s[Len(s) - 1]

\* the sequences over S of length 0..n
SeqsUpTo(S, n) == UNION {[1..m -> S] : m \in 0..n}

----------------------------------------------------------------------------
(* Log records: level, message and the count the message carries           *)
(* (-1 when it carries none).                                              *)

LogRec(level, msg, count) == [level |-> level, msg |-> msg, count |-> count]

----------------------------------------------------------------------------
(* DataFrame: none (the argument is None), its columns and its Close        *)
(* column; rows is len(data).                                              *)

RequiredColumns == {"Open", "High", "Low", "Close", "Volume"}

Frame(cols, close, rows) ==
    [none |-> FALSE, cols |-> cols, Close |-> close, rows |-> rows]

NoFrame == [none |-> TRUE, cols |-> {}, Close |-> <<>>, rows |-> 0]

\* data.empty: no rows or no columns
IsEmpty(d) == d.rows = 0 \/ d.cols = {}

\* data['Close'].isna().sum()
NaNCount(close) == Cardinality({i \in 1..Len(close) : IsNaN(close[i])})

\* (data['Close'] <= 0).any()
AnyNonPositive(close) == \E i \in 1..Len(close) : FLe(close[i], Num(0))

\* the value pct_change compares bar i with: bar i-1, or with pad the last
\* defined bar before i
RECURSIVE PrevValue(_, _, _)
PrevValue(close, i, p) ==
    IF i <= 1 THEN NaN
    ELSE IF p /\ IsNaN(close[i - 1]) THEN PrevValue(close, i - 1, p)
    ELSE close[i - 1]

\* the value of bar i as pct_change sees it
CurValue(close, i, p) ==
    IF p /\ IsNaN(close[i]) THEN PrevValue(close, i, p) ELSE close[i]

\* abs(cur / prev - 1) > 0.5 for prices > 0
ChangeExceedsHalf(cur, prev) ==
    /\ cur.k = "num" /\ prev.k = "num" /\ prev.v > 0
    /\ \/ 2 * (cur.v - prev.v) > prev.v
       \/ 2 * (prev.v - cur.v) > prev.v

\* (data['Close'].pct_change().abs() > 0.5).any()
AnySuspiciousChange(close, p) ==
    \E i \in 2..Len(close) :
        ChangeExceedsHalf(CurValue(close, i, p), PrevValue(close, i, p))

----------------------------------------------------------------------------
(* validate_stock_data(data, symbol): the value returned, the records      *)
(* logged, and whether an exception left it (a KeyError from data['Close'] *)
(* when the column is missing).                                            *)

ValidateRet(ok, lg, exc) == [ok |-> ok, log |-> lg, raised |-> exc]

\* missing_columns = [col for col in required_columns if col not in data.columns]
MissingColumns(d) == RequiredColumns \ d.cols

TooManyNaNInclusive(k, n) == 10 * k >= n

\* nan_ratio = k / n; nan_ratio > 0.1.  Float division is correctly rounded,
\* so k / n exceeds the double 0.1 iff k / n exceeds 1/10.
TooManyNaN(k, n) == 10 * k > n

TooFewBarsInclusive(d, c) == d.rows <= c.MIN_DATA_POINTS

\* len(data) < config.MIN_DATA_POINTS
TooFewBars(d, c) == d.rows < c.MIN_DATA_POINTS

PriceChangeCheckRejecting(close, p) ==
    IF AnySuspiciousChange(close, p)
    THEN ValidateRet(FALSE, <<LogRec("warning", "Suspicious price changes", -1)>>, FALSE)
    ELSE ValidateRet(TRUE, <<>>, FALSE)

\* the check for unrealistic price changes, which only logs, and return True
PriceChangeCheck(close, p) ==
    IF AnySuspiciousChange(close, p)
    THEN ValidateRet(TRUE, <<LogRec("warning", "Suspicious price changes", -1)>>, FALSE)
    ELSE ValidateRet(TRUE, <<>>, FALSE)

validate_stock_data(d, c, p) ==
    IF d.none \/ IsEmpty(d)
    THEN ValidateRet(FALSE, <<LogRec("warning", "No data available", -1)>>, FALSE)
    ELSE IF MissingColumns(d) # {}
    THEN ValidateRet(FALSE, <<LogRec("warning", "Missing columns", -1)>>, FALSE)
    ELSE IF TooFewBars(d, c)
    THEN ValidateRet(FALSE, <<LogRec("warning", "Insufficient data", d.rows)>>, FALSE)
    ELSE IF "Close" \notin d.cols
    THEN ValidateRet(FALSE, <<>>, TRUE)      \* data['Close']: KeyError
    ELSE IF TooManyNaN(NaNCount(d.Close), d.rows)
    THEN ValidateRet(FALSE, <<LogRec("warning", "Too many NaN values", -1)>>, FALSE)
    ELSE IF AnyNonPositive(d.Close)
    THEN ValidateRet(FALSE, <<LogRec("warning", "Invalid price data", -1)>>, FALSE)
    ELSE PriceChangeCheck(d.Close, p)

----------------------------------------------------------------------------
(* Signals: the kind of the message and the value it prints (None for a    *)
(* MACD crossover, whose message prints none).                             *)

Sig(kind, value) == [kind |-> kind, value |-> value]

RSIOversold(v) == Sig("RSI Oversold", v)
RSIOverbought(v) == Sig("RSI Overbought", v)
MACDBullish == Sig("MACD Bullish Crossover", None)
MACDBearish == Sig("MACD Bearish Crossover", None)

calculate_rsi_signals_inclusive(v, c) ==
    IF v = None \/ IsNaN(v) THEN <<>>
    ELSE IF v.v <= c.RSI_OVERSOLD THEN <<RSIOversold(v)>>
    ELSE IF v.v >= c.RSI_OVERBOUGHT THEN <<RSIOverbought(v)>>
    ELSE <<>>

calculate_rsi_signals_both(v, c) ==
    IF v = None \/ IsNaN(v) THEN <<>>
    ELSE (IF v.v < c.RSI_OVERSOLD THEN <<RSIOversold(v)>> ELSE <<>>)
         \o (IF v.v > c.RSI_OVERBOUGHT THEN <<RSIOverbought(v)>> ELSE <<>>)

\* calculate_rsi_signals(rsi_value), reading the global config
calculate_rsi_signals(v, c) ==
    IF v = None \/ IsNaN(v) THEN <<>>
    ELSE IF v.v < c.RSI_OVERSOLD THEN <<RSIOversold(v)>>
    ELSE IF v.v > c.RSI_OVERBOUGHT THEN <<RSIOverbought(v)>>
    ELSE <<>>

\* the value returned by calculate_macd_signals and whether an exception
\* (an IndexError from arr[-1] or arr[-2]) left it
MacdRet(sigs, exc) == [signals |-> sigs, raised |-> exc]

TooShortIgnoringHistogram(macd, signal, histogram) ==
    Len(macd) < 2 \/ Len(signal) < 2

\* len(macd) < 2 or len(signal) < 2 or len(histogram) < 2
TooShort(macd, signal, histogram) ==
    Len(macd) < 2 \/ Len(signal) < 2 \/ Len(histogram) < 2

CrossoverOnLevel(latest_macd, latest_signal, prev_histogram) ==
    IF FGt(latest_macd, latest_signal) THEN <<MACDBullish>>
    ELSE IF FLt(latest_macd, latest_signal) THEN <<MACDBearish>>
    ELSE <<>>

CrossoverNonStrict(latest_macd, latest_signal, prev_histogram) ==
    IF FGe(latest_macd, latest_signal) /\ FLe(prev_histogram, Num(0))
    THEN <<MACDBullish>>
    ELSE IF FLe(latest_macd, latest_signal) /\ FGe(prev_histogram, Num(0))
    THEN <<MACDBearish>>
    ELSE <<>>

\* the crossover rules on the latest MACD, the latest signal and the
\* previous histogram value
Crossover(latest_macd, latest_signal, prev_histogram) ==
    IF FGt(latest_macd, latest_signal) /\ FLe(prev_histogram, Num(0))
    THEN <<MACDBullish>>
    ELSE IF FLt(latest_macd, latest_signal) /\ FGe(prev_histogram, Num(0))
    THEN <<MACDBearish>>
    ELSE <<>>

calculate_macd_signals(macd, signal, histogram) ==
    IF TooShort(macd, signal, histogram) THEN MacdRet(<<>>, FALSE)
    ELSE IF Len(macd) < 1 \/ Len(signal) < 1 \/ Len(histogram) < 2
    THEN MacdRet(<<>>, TRUE)                 \* arr[-1], arr[-2]: IndexError
    ELSE IF IsNaN(Last(macd)) \/ IsNaN(Last(signal)) \/ IsNaN(Prev(histogram))
    THEN MacdRet(<<>>, FALSE)
    ELSE MacdRet(Crossover(Last(macd), Last(signal), Prev(histogram)), FALSE)

----------------------------------------------------------------------------
(* The inputs. *)

\* the base price of a series and the prices a bar may deviate to:
\* 2 -> 3 is a change of exactly 50%, 2 -> 4 and 1 -> 2 are above 50%
BasePrice == Num(2)
SpecialPrices == {NaN, Num(-1), Num(0), Num(1), Num(3), Num(4)}

\* the series of n bars that is f[i] at the bars i of P and the base price
\* at the others
SeriesAt(n, P, f) == [i \in 1..n |-> IF i \in P THEN f[i] ELSE BasePrice]

\* the sets of at most m bars among 1..n
BarSets(n, m) ==
    IF m = 0 THEN {{}}
    ELSE IF m = 1 THEN {{}} \cup {{i} : i \in 1..n}
    ELSE {P \in SUBSET (1..n) : Cardinality(P) <= m}

ColumnSets == {RequiredColumns, RequiredColumns \ {"Close"},
               RequiredColumns \ {"Volume"}, {}}

\* None, and the DataFrames with a column missing or with no column
BrokenFrames ==
    {Frame(cs, IF "Close" \in cs THEN SeriesAt(n, {}, <<>>) ELSE <<>>, n) :
        <<cs, n>> \in (ColumnSets \ {RequiredColumns}) \X {0, 1, MaxBars}}
    \cup {NoFrame}

\* data is None, lacks columns, or holds every column and a series of one of
\* the given lengths with at most m bars off the base price
DataIn(lengths, m) ==
    \/ data \in BrokenFrames
    \/ \E n \in lengths : \E P \in BarSets(n, m) : \E f \in [P -> SpecialPrices] :
        data = Frame(RequiredColumns, SeriesAt(n, P, f), n)

HasNaN(d) == \E i \in 1..Len(d.Close) : IsNaN(d.Close[i])

\* the minimum number of bars: small, and the length at which 10% is a
\* whole number of bars
MinPoints == {3, 10}

Config(os, ob, mp) ==
    [RSI_OVERSOLD |-> os, RSI_OVERBOUGHT |-> ob, MIN_DATA_POINTS |-> mp]

NoArgs == [macd |-> <<>>, signal |-> <<>>, histogram |-> <<>>, rsi_value |-> None]
NoInd == [rsi |-> <<>>, macd |-> <<>>, macd_signal |-> <<>>, macd_histogram |-> <<>>]

\* Config.__post_init__: loads the email settings from the environment and
\* logs the ones that are missing; it reads no threshold and rejects none
PostInit(c) == [config |-> c, raised |-> FALSE]

\* no batch is running
NoBatch ==
    /\ entry = "none"
    /\ max_workers = 0
    /\ filtered_symbols = <<>>
    /\ historical_data_dict = <<>>
    /\ stock_info_map = <<>>
    /\ futures = <<>>
    /\ completed = <<>>
    /\ current = 0
    /\ processed_count = 0
    /\ total_analyzed = 0
    /\ companies_with_signals = <<>>
    /\ results = <<>>
    /\ returned = FALSE

\* no invocation is repeated
NoTwice ==
    /\ first = None
    /\ talib = [raised |-> FALSE, out |-> NoInd]
    /\ periods = <<>>

\* the pair (data, info); None stands as NoFrame for the data
Pair(d, info) == [data |-> d, info |-> info]

\* what fetch_nse_equity_list returns: None, or the list of names
WebResult(ok, list) == [ok |-> ok, list |-> list]

\* no symbol list is being acquired
NoAcquire ==
    /\ symbol_limit = None
    /\ web_symbols = WebResult(FALSE, <<>>)
    /\ fallback_symbols = <<>>
    /\ symbols = <<>>
    /\ data_source = "none"

\* no series is being fetched
NoFetch ==
    /\ include_info = FALSE
    /\ attempt = 0
    /\ sleeps = <<>>
    /\ fetched = Pair(NoFrame, None)

\* nothing is being filtered
NoFiltering ==
    /\ stock_info_list = <<>>
    /\ failed_count = 0

\* nothing is being acquired, fetched or filtered
NoIo == NoAcquire /\ NoFetch /\ NoFiltering

\* no caller of the core is running
InitOuter ==
    /\ stock_info = None
    /\ analysis = None
    /\ NoBatch
    /\ NoTwice
    /\ NoIo

----------------------------------------------------------------------------
(* SpecValidate: one call of validate_stock_data. *)

InitValidate ==
    /\ cfg \in {Config(2, 4, mp) : mp \in MinPoints}
    /\ symbol = "INFY.NS"
    /\ DataIn(0..MaxBars, MaxSpecial)
    /\ pad \in (IF HasNaN(data) THEN BOOLEAN ELSE {FALSE})
    /\ args = NoArgs
    /\ pc = "call"
    /\ calls = <<>>
    /\ log = <<>>
    /\ ind = NoInd
    /\ result = FALSE
    /\ raised = FALSE
    /\ InitOuter

CallValidate ==
    /\ pc = "call"
    /\ LET r == validate_stock_data(data, cfg, pad) IN
        /\ result' = r.ok
        /\ log' = log \o r.log
        /\ raised' = r.raised
    /\ calls' = Append(calls, "validate_stock_data")
    /\ pc' = "returned"
    /\ UNCHANGED <<cfg, symbol, data, pad, args, ind>>
    /\ UNCHANGED outer

NextValidate == CallValidate

SpecValidate == InitValidate /\ [][NextValidate]_vars

----------------------------------------------------------------------------
(* SpecRSI: one call of calculate_rsi_signals. *)

\* every pair of thresholds over 1..5: apart, equal and overlapping
ThresholdGrid == (1..5) \X (1..5)
RsiValues == {None, NaN} \cup {Num(i) : i \in 0..6}

InitRSI ==
    /\ cfg \in {Config(t[1], t[2], 3) : t \in ThresholdGrid}
    /\ symbol = "INFY.NS"
    /\ data = NoFrame
    /\ pad = FALSE
    /\ args \in {[NoArgs EXCEPT !.rsi_value = v] : v \in RsiValues}
    /\ pc = "call"
    /\ calls = <<>>
    /\ log = <<>>
    /\ ind = NoInd
    /\ result = <<>>
    /\ raised = FALSE
    /\ InitOuter

CallRsiSignals ==
    /\ pc = "call"
    /\ result' = calculate_rsi_signals(args.rsi_value, cfg)
    /\ calls' = Append(calls, "calculate_rsi_signals")
    /\ pc' = "returned"
    /\ UNCHANGED <<cfg, symbol, data, pad, args, log, ind, raised>>
    /\ UNCHANGED outer

NextRSI == CallRsiSignals

SpecRSI == InitRSI /\ [][NextRSI]_vars

----------------------------------------------------------------------------
(* SpecMACD: one call of calculate_macd_signals. *)

MacdValues == {NaN, Num(-1), Num(0), Num(1)}

\* the histogram -0.5, -0.1, 0.3 in tenths, as MACD minus a flat signal
\* line, classified at index 2 and at index 1
ExampleAt2 ==
    [NoArgs EXCEPT !.macd = <<Num(-5), Num(-1), Num(3)>>,
                   !.signal = <<Num(0), Num(0), Num(0)>>,
                   !.histogram = <<Num(-5), Num(-1), Num(3)>>]
ExampleAt1 ==
    [NoArgs EXCEPT !.macd = <<Num(-5), Num(-1)>>,
                   !.signal = <<Num(0), Num(0)>>,
                   !.histogram = <<Num(-5), Num(-1)>>]

InitMACD ==
    /\ cfg = Config(2, 4, 3)
    /\ symbol = "INFY.NS"
    /\ data = NoFrame
    /\ pad = FALSE
    /\ args \in {[NoArgs EXCEPT !.macd = m, !.signal = s, !.histogram = h] :
                    <<m, s, h>> \in SeqsUpTo(MacdValues, MaxLen)
                                    \X SeqsUpTo(MacdValues, MaxLen)
                                    \X SeqsUpTo(MacdValues, MaxLen)}
                \cup {ExampleAt2, ExampleAt1}
    /\ pc = "call"
    /\ calls = <<>>
    /\ log = <<>>
    /\ ind = NoInd
    /\ result = <<>>
    /\ raised = FALSE
    /\ InitOuter

CallMacdSignals ==
    /\ pc = "call"
    /\ LET r == calculate_macd_signals(args.macd, args.signal, args.histogram) IN
        /\ result' = r.signals
        /\ raised' = r.raised
    /\ calls' = Append(calls, "calculate_macd_signals")
    /\ pc' = "returned"
    /\ UNCHANGED <<cfg, symbol, data, pad, args, log, ind>>
    /\ UNCHANGED outer

NextMACD == CallMacdSignals

SpecMACD == InitMACD /\ [][NextMACD]_vars

----------------------------------------------------------------------------
(* Spec: one call of analyze_stock_with_talib(symbol, data).               *)
(*                                                                         *)
(* TA-Lib is outside the repository: what it returns is a choice.  Its     *)
(* outputs are arrays of the length of the close series, NaN during        *)
(* warm-up, that end with any values (NaN among them) at the bars the      *)
(* classifiers read (rsi[-1]; macd and signal at [-1] and [-2]), with      *)
(* histogram = macd - signal; a TA-Lib call may also raise.                *)

\* a symbol is the sequence of its parts, ".NS" being one part
Symbols == {<<"INFY", ".NS">>, <<"TCS">>}

\* symbol.replace('.NS', '') if symbol.endswith('.NS') else symbol
CompanyName(sym) ==
    IF Len(sym) > 0 /\ Last(sym) = ".NS"
    THEN SelectSeq(sym, LAMBDA part : part # ".NS")
    ELSE sym

RsiIndValues == {NaN, Num(1), Num(3), Num(5)}
MacdIndValues == {NaN, Num(0), Num(1)}

\* the array of n entries that is NaN during warm-up and ends with tail
WarmupThen(n, tail) ==
    [i \in 1..n |-> IF i <= n - Len(tail) THEN NaN ELSE tail[i - (n - Len(tail))]]

\* the sequences over S of length min(n, t)
Tails(S, n, t) == [1..(IF n < t THEN n ELSE t) -> S]

\* macdhist = macd - macdsignal, entry by entry
HistogramOf(macd, signal) == [i \in 1..Len(macd) |-> FSub(macd[i], signal[i])]

\* what talib.RSI(close, ...) and talib.MACD(close, ...) may return
TalibOutputs(close) ==
    LET n == Len(close) IN
    {[rsi |-> WarmupThen(n, r),
      macd |-> WarmupThen(n, m),
      macd_signal |-> WarmupThen(n, s),
      macd_histogram |-> HistogramOf(WarmupThen(n, m), WarmupThen(n, s))] :
        <<r, m, s>> \in Tails(RsiIndValues, n, 1)
                        \X Tails(MacdIndValues, n, 2)
                        \X Tails(MacdIndValues, n, 2)}

PreviousOrNone(arr) == IF Len(arr) > 1 /\ ~IsNaN(Prev(arr)) THEN Prev(arr) ELSE None

FirstOrNone(arr) == IF Len(arr) > 0 /\ ~IsNaN(arr[1]) THEN arr[1] ELSE None

\* arr[-1] if len(arr) > 0 and not np.isnan(arr[-1]) else None
LatestOrNone(arr) == IF Len(arr) > 0 /\ ~IsNaN(Last(arr)) THEN Last(arr) ELSE None

\* what the except clause of analyze_stock_with_talib leaves: the value
\* returned, the record logged, whether the exception goes on to the caller
Outcome(res, lg, exc) == [result |-> res, log |-> lg, raised |-> exc]

ExceptClausePropagating == Outcome(None, <<>>, TRUE)

\* except Exception as e: logger.error(...); return None
ExceptClause == Outcome(None, <<LogRec("error", "Error analyzing", -1)>>, FALSE)

PriceInvalidIgnoringNaN(latest_price) == FLe(latest_price, Num(0))

\* latest_price <= 0 or np.isnan(latest_price)
PriceInvalid(latest_price) == FLe(latest_price, Num(0)) \/ IsNaN(latest_price)

\* the result dict
Record(sym, d, close, i, latest_rsi, latest_macd, latest_signal, latest_histogram, latest_price, all_signals) ==
    [symbol |-> sym,
     company_name |-> CompanyName(sym),
     current_price |-> latest_price,
     rsi |-> latest_rsi,
     macd |-> latest_macd,
     macd_signal |-> latest_signal,
     macd_histogram |-> latest_histogram,
     signals |-> all_signals,
     data |-> d,
     indicators |-> i,
     data_quality |-> [data_points |-> Len(close),
                       valid_rsi |-> latest_rsi # None,
                       valid_macd |-> latest_macd # None /\ latest_signal # None]]

AllSignalsMacdFirst(rsi_signals, macd_signals) == macd_signals \o rsi_signals

\* all_signals = rsi_signals + macd_signals
AllSignals(rsi_signals, macd_signals) == rsi_signals \o macd_signals

ValidationPassedAlways(v) == TRUE

\* if not validate_stock_data(data, symbol): return None
ValidationPassed(v) == v.ok

\* short series, and series of the lengths at which an undefined close can
\* stay within 10%
AnalysisLengths == (0..3) \cup {MaxBars - 1, MaxBars}

\* the thresholds apart and overlapping
AnalysisConfigs ==
    {Config(t[1], t[2], mp) : <<t, mp>> \in {<<2, 4>>, <<4, 2>>} \X MinPoints}

Init ==
    /\ \E c \in AnalysisConfigs : ~PostInit(c).raised /\ cfg = PostInit(c).config
    /\ symbol \in Symbols
    /\ DataIn(AnalysisLengths, 1)
    /\ pad \in (IF HasNaN(data) THEN BOOLEAN ELSE {FALSE})
    /\ args = NoArgs
    /\ pc = "validate"
    /\ calls = <<>>
    /\ log = <<>>
    /\ ind = NoInd
    /\ result = None
    /\ raised = FALSE
    /\ InitOuter

\* lines 92-101: validate the data, take the closes, check their number
Validate ==
    /\ pc = "validate"
    /\ calls' = Append(calls, "validate_stock_data")
    /\ LET v == validate_stock_data(data, cfg, pad) IN
        IF v.raised
        THEN /\ result' = ExceptClause.result
             /\ log' = log \o v.log \o ExceptClause.log
             /\ raised' = ExceptClause.raised
             /\ pc' = "done"
        ELSE IF ~ValidationPassed(v)
        THEN /\ result' = None
             /\ log' = log \o v.log
             /\ pc' = "done"
             /\ UNCHANGED raised
        ELSE IF Len(data.Close) < cfg.MIN_DATA_POINTS
        THEN /\ result' = None
             /\ log' = log \o v.log
                       \o <<LogRec("warning", "Insufficient data points",
                                   Len(data.Close))>>
             /\ pc' = "done"
             /\ UNCHANGED raised
        ELSE /\ log' = log \o v.log
             /\ pc' = "indicators"
             /\ UNCHANGED <<result, raised>>
    /\ UNCHANGED <<cfg, symbol, data, pad, args, ind>>
    /\ UNCHANGED outer

\* lines 104-112: talib.RSI and talib.MACD return their arrays
ComputeIndicators ==
    /\ pc = "indicators"
    /\ ind' \in TalibOutputs(data.Close)
    /\ calls' = calls \o <<"talib.RSI", "talib.MACD">>
    /\ pc' = "latest"
    /\ UNCHANGED <<cfg, symbol, data, pad, args, log, result, raised>>
    /\ UNCHANGED outer

\* lines 104-112 and 160-162: talib.RSI or talib.MACD raises
IndicatorsRaise ==
    /\ pc = "indicators"
    /\ \E made \in {<<"talib.RSI">>, <<"talib.RSI", "talib.MACD">>} :
        calls' = calls \o made
    /\ result' = ExceptClause.result
    /\ log' = log \o ExceptClause.log
    /\ raised' = ExceptClause.raised
    /\ pc' = "done"
    /\ UNCHANGED <<cfg, symbol, data, pad, args, ind>>
    /\ UNCHANGED outer

\* lines 114-158: the latest values, the price check, the signals, the result
Classify ==
    /\ pc = "latest"
    /\ LET close == data.Close
           latest_rsi == LatestOrNone(ind.rsi)
           latest_macd == LatestOrNone(ind.macd)
           latest_signal == LatestOrNone(ind.macd_signal)
           latest_histogram == LatestOrNone(ind.macd_histogram)
           latest_price == Last(close)
       IN
        IF PriceInvalid(latest_price)
        THEN /\ result' = None
             /\ log' = Append(log, LogRec("error", "Invalid latest price", -1))
             /\ UNCHANGED <<calls, raised>>
        ELSE LET rsi_signals == calculate_rsi_signals(latest_rsi, cfg)
                 m == calculate_macd_signals(ind.macd, ind.macd_signal,
                                             ind.macd_histogram)
             IN
             /\ calls' = calls \o <<"calculate_rsi_signals", "calculate_macd_signals">>
             /\ IF m.raised
                THEN /\ result' = ExceptClause.result
                     /\ log' = log \o ExceptClause.log
                     /\ raised' = ExceptClause.raised
                ELSE /\ result' = Record(symbol, data, close, ind, latest_rsi,
                                         latest_macd, latest_signal,
                                         latest_histogram, latest_price,
                                         AllSignals(rsi_signals, m.signals))
                     /\ log' = Append(log, LogRec("debug", "Successfully analyzed", -1))
                     /\ UNCHANGED raised
    /\ pc' = "done"
    /\ UNCHANGED <<cfg, symbol, data, pad, args, ind>>
    /\ UNCHANGED outer

Next == Validate \/ ComputeIndicators \/ IndicatorsRaise \/ Classify

Spec == Init /\ [][Next]_vars

\* what TA-Lib does during one call of analyze_stock_with_talib: it returns
\* its arrays, or one of its two calls raises
TalibBehaviours(close) ==
    {[raised |-> FALSE, out |-> o] : o \in TalibOutputs(close)}
        \cup {[raised |-> TRUE, out |-> NoInd]}

\* analyze_stock_with_talib(symbol, data) as one function: the outcome of
\* Validate, ComputeIndicators or IndicatorsRaise, and Classify when TA-Lib
\* behaves as t
analyze_stock_with_talib(sym, d, c, p, t) ==
    LET v == validate_stock_data(d, c, p) IN
    IF v.raised
    THEN Outcome(ExceptClause.result, v.log \o ExceptClause.log, ExceptClause.raised)
    ELSE IF ~ValidationPassed(v) THEN Outcome(None, v.log, FALSE)
    ELSE IF Len(d.Close) < c.MIN_DATA_POINTS
    THEN Outcome(None,
                 Append(v.log, LogRec("warning", "Insufficient data points", Len(d.Close))),
                 FALSE)
    ELSE IF t.raised
    THEN Outcome(ExceptClause.result, v.log \o ExceptClause.log, ExceptClause.raised)
    ELSE LET close == d.Close
             i == t.out
             latest_rsi == LatestOrNone(i.rsi)
             latest_macd == LatestOrNone(i.macd)
             latest_signal == LatestOrNone(i.macd_signal)
             latest_histogram == LatestOrNone(i.macd_histogram)
             latest_price == Last(close)
             rsi_signals == calculate_rsi_signals(latest_rsi, c)
             m == calculate_macd_signals(i.macd, i.macd_signal, i.macd_histogram)
         IN
         IF PriceInvalid(latest_price)
         THEN Outcome(None, Append(v.log, LogRec("error", "Invalid latest price", -1)),
                      FALSE)
         ELSE IF m.raised
         THEN Outcome(ExceptClause.result, v.log \o ExceptClause.log,
                      ExceptClause.raised)
         ELSE Outcome(Record(sym, d, close, i, latest_rsi, latest_macd,
                             latest_signal, latest_histogram, latest_price,
                             AllSignals(rsi_signals, m.signals)),
                      Append(v.log, LogRec("debug", "Successfully analyzed", -1)),
                      FALSE)

\* the step actions and the function agree on every finished call (ind holds
\* what TA-Lib returned, and stays empty when it raised or was not called)
StepsAgreeWithFunction ==
    pc = "done" =>
        Outcome(result, log, raised)
            = analyze_stock_with_talib(symbol, data, cfg, pad,
                                       [raised |-> ind = NoInd, out |-> ind])

----------------------------------------------------------------------------
(* Claims about the classifiers and the validator. *)

\* how many signals of a kind a list holds
CountKind(sigs, kind) == Cardinality({i \in 1..Len(sigs) : sigs[i].kind = kind})

\* C1: calculate_rsi_signals returns no signal for None or NaN; otherwise,
\* with the configured thresholds, exactly the one Oversold signal iff
\* v < RSI_OVERSOLD, an empty list for every v with
\* RSI_OVERSOLD <= v <= RSI_OVERBOUGHT, and, the thresholds not
\* overlapping, exactly the one Overbought signal iff v > RSI_OVERBOUGHT.
C1_RsiThresholds ==
    pc = "returned" =>
        LET v == args.rsi_value IN
        IF v = None \/ IsNaN(v) THEN result = <<>>
        ELSE /\ (result = <<RSIOversold(v)>>) <=> (v.v < cfg.RSI_OVERSOLD)
             /\ CountKind(result, "RSI Oversold") = 1 <=> (v.v < cfg.RSI_OVERSOLD)
             /\ (cfg.RSI_OVERSOLD <= v.v /\ v.v <= cfg.RSI_OVERBOUGHT) => result = <<>>
             /\ cfg.RSI_OVERSOLD <= cfg.RSI_OVERBOUGHT =>
                    /\ (result = <<RSIOverbought(v)>>) <=> (v.v > cfg.RSI_OVERBOUGHT)
                    /\ CountKind(result, "RSI Overbought") = 1
                           <=> (v.v > cfg.RSI_OVERBOUGHT)

\* one unit below the oversold threshold the signal is returned
C1_Witness ==
    /\ pc = "returned"
    /\ args.rsi_value.k = "num"
    /\ args.rsi_value.v = cfg.RSI_OVERSOLD - 1
    /\ cfg.RSI_OVERSOLD < cfg.RSI_OVERBOUGHT
    /\ result = <<RSIOversold(args.rsi_value)>>

\* the arrays have two entries or more and the three values read are defined
MacdDefined(a) ==
    /\ Len(a.macd) >= 2 /\ Len(a.signal) >= 2 /\ Len(a.histogram) >= 2
    /\ ~IsNaN(Last(a.macd)) /\ ~IsNaN(Last(a.signal)) /\ ~IsNaN(Prev(a.histogram))

\* C3: on arrays of two entries or more with the latest MACD, latest signal
\* and previous histogram defined, calculate_macd_signals returns [Bullish]
\* iff macd[-1] > signal[-1] and histogram[-2] <= 0, [Bearish] iff
\* macd[-1] < signal[-1] and histogram[-2] >= 0, and [] otherwise; never
\* both; equal MACD and signal give no signal; the histogram -0.5, -0.1, 0.3
\* gives Bullish at index 2 and nothing at index 1.
C3_MacdCrossover ==
    pc = "returned" =>
        /\ MacdDefined(args) =>
            LET m == Last(args.macd).v
                s == Last(args.signal).v
                h == Prev(args.histogram).v
            IN  /\ (result = <<MACDBullish>>) <=> (m > s /\ h <= 0)
                /\ (result = <<MACDBearish>>) <=> (m < s /\ h >= 0)
                /\ result \in {<<MACDBullish>>, <<MACDBearish>>, <<>>}
                /\ (m = s) => result = <<>>
        /\ args = ExampleAt2 => result = <<MACDBullish>>
        /\ args = ExampleAt1 => result = <<>>

\* MACD equal to the signal with a previous histogram of zero: no signal
C3_Witness ==
    /\ pc = "returned"
    /\ MacdDefined(args)
    /\ Last(args.macd) = Last(args.signal)
    /\ Prev(args.histogram) = Num(0)
    /\ result = <<>>

\* C4: calculate_macd_signals returns [] without raising when an array has
\* fewer than two entries or the latest MACD, the latest signal or the
\* previous histogram is NaN; a NaN latest histogram alone suppresses nothing.
C4_MacdUndefined ==
    pc = "returned" =>
        /\ ~raised
        /\ ~MacdDefined(args) => result = <<>>
        /\ (MacdDefined(args) /\ IsNaN(Last(args.histogram))) =>
            LET m == Last(args.macd).v
                s == Last(args.signal).v
                h == Prev(args.histogram).v
            IN  /\ (m > s /\ h <= 0) => result = <<MACDBullish>>
                /\ (m < s /\ h >= 0) => result = <<MACDBearish>>

\* a signal returned although the latest histogram is NaN
C4_Witness ==
    /\ pc = "returned"
    /\ MacdDefined(args)
    /\ IsNaN(Last(args.histogram))
    /\ result = <<MACDBullish>>
    /\ ~raised

\* the reasons for which the validator rejects, stated on the DataFrame
RejectCondition(d, c) ==
    \/ d.none
    \/ d.rows = 0 \/ d.cols = {}
    \/ \E col \in RequiredColumns : col \notin d.cols
    \/ d.rows < c.MIN_DATA_POINTS
    \/ 100 * NaNCount(d.Close) > 10 * d.rows
    \/ \E i \in 1..Len(d.Close) : d.Close[i].k = "num" /\ d.Close[i].v <= 0

\* C5: validate_stock_data returns False, without raising, iff the series is
\* None or empty, a required column is missing, there are fewer than
\* MIN_DATA_POINTS bars, more than 10% of the closes are undefined, or a
\* close is <= 0; otherwise (also with exactly 10% undefined) it returns True.
C5_ValidateRejectsIff ==
    pc = "returned" =>
        /\ ~raised
        /\ (result = FALSE) <=> RejectCondition(data, cfg)

\* ten bars, one of them undefined, accepted
C5_Witness ==
    /\ pc = "returned"
    /\ data.rows = 10
    /\ NaNCount(data.Close) = 1
    /\ result = TRUE

----------------------------------------------------------------------------
(* Claims about analyze_stock_with_talib. *)

\* the messages logged so far
Msgs(lg) == {lg[i].msg : i \in 1..Len(lg)}

\* the messages with which validate_stock_data rejects
ValidationReasons ==
    {"No data available", "Missing columns", "Insufficient data",
     "Too many NaN values", "Invalid price data"}

\* a DataFrame with rows and with every required column
StructurallyValid(d) == ~d.none /\ ~IsEmpty(d) /\ RequiredColumns \subseteq d.cols

\* two consecutive defined closes more than 50% apart
HasJump(close) ==
    \E i \in 2..Len(close) :
        /\ close[i].k = "num" /\ close[i - 1].k = "num" /\ close[i - 1].v > 0
        /\ \/ 2 * (close[i].v - close[i - 1].v) > close[i - 1].v
           \/ 2 * (close[i - 1].v - close[i].v) > close[i - 1].v

\* C2: under every configuration, also one with RSI_OVERSOLD >=
\* RSI_OVERBOUGHT, the signals of a returned record never hold both an
\* RSI Oversold and an RSI Overbought signal, and hold at most one RSI signal.
C2_RsiExclusive ==
    (pc = "done" /\ result # None) =>
        CountKind(result.signals, "RSI Oversold")
            + CountKind(result.signals, "RSI Overbought") <= 1

\* overlapping thresholds and an RSI above the one and below the other
C2_Witness ==
    /\ pc = "done" /\ result # None
    /\ cfg.RSI_OVERSOLD >= cfg.RSI_OVERBOUGHT
    /\ result.rsi # None
    /\ result.rsi.v > cfg.RSI_OVERBOUGHT /\ result.rsi.v < cfg.RSI_OVERSOLD
    /\ CountKind(result.signals, "RSI Oversold") = 1

\* C6: a series that meets no rejection condition and holds a change of
\* more than 50% between two sessions is accepted by the validator, which
\* logs a warning, and goes on to be analysed: the indicators are computed,
\* and no rejection of the validator is logged.
C6_JumpOnlyWarns ==
    (pc # "validate" /\ ~RejectCondition(data, cfg) /\ HasJump(data.Close)) =>
        /\ Len(log) >= 1
        /\ log[1] = LogRec("warning", "Suspicious price changes", -1)
        /\ Msgs(log) \cap ValidationReasons = {}
        /\ pc = "done" => /\ Len(calls) >= 2
                          /\ calls[2] = "talib.RSI"
                          /\ result = None =>
                                Msgs(log) \cap {"Error analyzing",
                                                "Invalid latest price"} # {}

\* a record returned for a series with such a change
C6_Witness ==
    /\ pc = "done"
    /\ HasJump(data.Close)
    /\ result # None
    /\ result.data = data

\* C7: the series is validated first; when validate_stock_data returns
\* False the call returns None with the validator's reason logged and
\* nothing else: no TA-Lib call and no classifier call is made.
C7_ValidationFirst ==
    /\ calls # <<>> => calls[1] = "validate_stock_data"
    /\ (pc # "validate" /\ ~validate_stock_data(data, cfg, pad).ok) =>
        /\ pc = "done"
        /\ result = None
        /\ ~raised
        /\ calls = <<"validate_stock_data">>
        /\ ind = NoInd
        /\ Len(log) = 1 /\ log[1].msg \in ValidationReasons

\* a series with too many undefined closes, rejected
C7_Witness ==
    /\ pc = "done"
    /\ StructurallyValid(data)
    /\ ~validate_stock_data(data, cfg, pad).ok
    /\ log = <<LogRec("warning", "Too many NaN values", -1)>>
    /\ result = None

\* C8 as stated: every series with fewer bars than MIN_DATA_POINTS is
\* rejected with the reason "insufficient data" and its number of bars.
C8_Original ==
    (pc = "done" /\ ~data.none /\ data.rows < cfg.MIN_DATA_POINTS) =>
        /\ result = None
        /\ log = <<LogRec("warning", "Insufficient data", data.rows)>>

\* C8 amended: a series with at least one bar and every required column but
\* fewer bars than MIN_DATA_POINTS is rejected with the reason
\* "Insufficient data" and its number of bars, before any indicator is
\* computed; no other rejection carries that reason.
C8_InsufficientData ==
    pc = "done" =>
        IF StructurallyValid(data) /\ data.rows < cfg.MIN_DATA_POINTS
        THEN /\ result = None
             /\ log = <<LogRec("warning", "Insufficient data", data.rows)>>
             /\ calls = <<"validate_stock_data">>
        ELSE "Insufficient data" \notin Msgs(log)

\* two bars where three are required
C8_Witness ==
    /\ pc = "done"
    /\ data.rows = 2 /\ cfg.MIN_DATA_POINTS = 3
    /\ StructurallyValid(data)
    /\ log = <<LogRec("warning", "Insufficient data", 2)>>

\* the latest close is 0 / is undefined
LatestIsZero(d) == Len(d.Close) > 0 /\ Last(d.Close) = Num(0)
LatestIsNaN(d) == Len(d.Close) > 0 /\ IsNaN(Last(d.Close))

\* C9 as stated: a series of sufficient length whose latest close is 0 or
\* undefined is rejected with the reason "invalid latest price" by the check
\* that runs after the indicators have been computed.
C9_Original ==
    (pc = "done" /\ StructurallyValid(data) /\ data.rows >= cfg.MIN_DATA_POINTS
        /\ (LatestIsZero(data) \/ LatestIsNaN(data))
        /\ "Error analyzing" \notin Msgs(log)) =>
        /\ result = None
        /\ Last(log) = LogRec("error", "Invalid latest price", -1)
        /\ calls = <<"validate_stock_data", "talib.RSI", "talib.MACD">>

\* C9 amended: no record is returned for a series of sufficient length
\* whose latest close is 0 or undefined.  A latest close of 0 is rejected by
\* validate_stock_data, before any indicator is computed, with the
\* validator's reason.  An undefined latest close in a series the validator
\* accepts is rejected with "Invalid latest price" by the check that runs
\* after the indicators have been computed (unless TA-Lib raised).
C9_BadLatestPrice ==
    (pc = "done" /\ StructurallyValid(data) /\ data.rows >= cfg.MIN_DATA_POINTS) =>
        /\ LatestIsZero(data) =>
            /\ result = None
            /\ calls = <<"validate_stock_data">>
            /\ Len(log) = 1
            /\ log[1].msg \in {"Invalid price data", "Too many NaN values"}
        /\ (LatestIsNaN(data) /\ validate_stock_data(data, cfg, pad).ok) =>
            /\ result = None
            /\ \/ /\ Last(log) = LogRec("error", "Invalid latest price", -1)
                  /\ calls = <<"validate_stock_data", "talib.RSI", "talib.MACD">>
                  /\ ind # NoInd
               \/ Last(log) = LogRec("error", "Error analyzing", -1)

\* an accepted series with an undefined latest close, rejected after the
\* indicators were computed
C9_Witness ==
    /\ pc = "done"
    /\ LatestIsNaN(data)
    /\ validate_stock_data(data, cfg, pad).ok
    /\ ind # NoInd
    /\ Last(log) = LogRec("error", "Invalid latest price", -1)
    /\ result = None

\* C10: no exception leaves analyze_stock_with_talib; the call returns None
\* for a series that is None or empty, lacks a column, is too short, has too
\* many undefined closes, a close <= 0 or an undefined latest close, or when
\* TA-Lib raised, and returns a record in every other case.
C10_NeverRaises ==
    /\ ~raised
    /\ pc = "done" =>
        /\ (result = None) <=>
              \/ RejectCondition(data, cfg)
              \/ LatestIsNaN(data)
              \/ "Error analyzing" \in Msgs(log)
        /\ result # None => /\ result.symbol = symbol
                            /\ result.current_price = Last(data.Close)

\* TA-Lib raised and the call returned None
C10_Witness ==
    /\ pc = "done"
    /\ "talib.RSI" \in {calls[i] : i \in 1..Len(calls)}
    /\ Last(log) = LogRec("error", "Error analyzing", -1)
    /\ result = None
    /\ ~raised

----------------------------------------------------------------------------
(* SpecSingle: one call of analyze_single_stock_optimized(symbol,           *)
(* stock_data, stock_info), the task run_analysis_and_send_report submits  *)
(* for each symbol.                                                        *)

\* 10**7, the rupees in one crore
Crore == 10000000

RECURSIVE Gcd(_, _)
Gcd(a, b) == IF b = 0 THEN a ELSE Gcd(b, a % b)

\* the float x / y for integers x >= 0 and y > 0, kept exact in lowest terms
Div(x, y) == [k |-> "num", n |-> x \div Gcd(x, y), d |-> y \div Gcd(x, y)]

InfoKeys == {"symbol", "market_cap", "daily_volume_rs", "company_name"}

\* a stock_info dict: its keys, and the values of the keys the task reads
\* (None, or the empty name, stands at a key the dict lacks)
Dict(keys, market_cap, daily_volume_rs, company_name) ==
    [keys |-> keys,
     market_cap |-> IF "market_cap" \in keys THEN market_cap ELSE None,
     daily_volume_rs |-> IF "daily_volume_rs" \in keys THEN daily_volume_rs ELSE None,
     company_name |-> IF "company_name" \in keys THEN company_name ELSE <<>>]

EmptyDict == Dict({}, None, None, <<>>)

\* stock_info.get(key, default)
Get(info, key, default) == IF key \in info.keys THEN info[key] ELSE default

TruthyUnlessNone(info) == info # None

\* if stock_info: neither None nor an empty dict
Truthy(info) == info # None /\ info.keys # {}

\* symbol.replace('.NS', '')
ReplaceNS(sym) == SelectSeq(sym, LAMBDA part : part # ".NS")

MergeInfoRenamingSymbol(rec, market_cap, daily_volume_rs, company_name) ==
    [market_cap_cr |-> Div(market_cap.v, Crore),
     daily_volume_cr |-> Div(daily_volume_rs.v, Crore),
     company_name |-> company_name,
     symbol |-> company_name] @@ rec

\* lines 108-110: the three assignments to the dict analysis
MergeInfo(rec, market_cap, daily_volume_rs, company_name) ==
    [market_cap_cr |-> Div(market_cap.v, Crore),
     daily_volume_cr |-> Div(daily_volume_rs.v, Crore),
     company_name |-> company_name] @@ rec

\* what a call of analyze_single_stock_optimized gives: the value returned,
\* the record analyze_stock_with_talib had returned to it, the log
Single(res, constructed, lg) == [analysis |-> res, constructed |-> constructed, log |-> lg]

\* except Exception as e: logger.error(...); return None
SingleExcept(constructed, lg) ==
    Single(None, constructed, Append(lg, LogRec("error", "Unexpected error processing", -1)))

\* analyze_single_stock_optimized(symbol, stock_data, stock_info) when TA-Lib
\* behaves as t
analyze_single_stock_optimized(sym, d, info, c, p, t) ==
    LET a == analyze_stock_with_talib(sym, d, c, p, t) IN
    IF a.raised THEN SingleExcept(None, a.log)
    ELSE IF a.result # None
    THEN IF Truthy(info)
         THEN LET market_cap == Get(info, "market_cap", Num(0))
                  daily_volume_rs == Get(info, "daily_volume_rs", Num(0))
                  company_name == Get(info, "company_name", ReplaceNS(sym))
              IN
              \* None / 10**7 is a TypeError
              IF market_cap = None \/ daily_volume_rs = None
              THEN SingleExcept(a.result, a.log)
              ELSE Single(MergeInfo(a.result, market_cap, daily_volume_rs, company_name),
                          a.result, a.log)
         ELSE Single(a.result, a.result, a.log)
    ELSE Single(None, None, Append(a.log, LogRec("warning", "Analysis failed", -1)))

\* market caps below, at and between whole crores, and an undefined one
MarketCaps == {None, Num(0), Num(15000000), Num(3 * Crore)}

\* no metadata (None, {}), a dict lacking the keys read, full dicts
StockInfos(sym) ==
    {None, EmptyDict, Dict({"symbol"}, None, None, <<>>)}
        \cup {Dict(InfoKeys, mc, Num(25000000), <<"Infosys Limited">>) : mc \in MarketCaps}

SingleLengths == {0, MaxBars}

\* the TA-Lib behaviours tried under a task: a raise, and the outputs whose
\* MACD line and signal line coincide
SingleTalib(close) ==
    {t \in TalibBehaviours(close) : t.raised \/ t.out.macd = t.out.macd_signal}

InitSingle ==
    /\ cfg \in {Config(2, 4, mp) : mp \in MinPoints}
    /\ symbol \in Symbols
    /\ DataIn(SingleLengths, 1)
    /\ pad \in (IF HasNaN(data) THEN BOOLEAN ELSE {FALSE})
    /\ stock_info \in StockInfos(symbol)
    /\ args = NoArgs
    /\ pc = "call"
    /\ calls = <<>>
    /\ log = <<>>
    /\ ind = NoInd
    /\ result = None
    /\ raised = FALSE
    /\ analysis = None
    /\ NoBatch
    /\ NoTwice
    /\ NoIo

\* lines 99-119: the whole task
AnalyzeSingleStockOptimized ==
    /\ pc = "call"
    /\ \E t \in SingleTalib(IF data.none THEN <<>> ELSE data.Close) :
        LET r == analyze_single_stock_optimized(symbol, data, stock_info, cfg, pad, t) IN
        /\ analysis' = r.analysis
        /\ result' = r.constructed
        /\ log' = r.log
        /\ ind' = t.out
    /\ calls' = Append(calls, "analyze_stock_with_talib")
    /\ pc' = "returned"
    /\ UNCHANGED <<cfg, symbol, data, pad, args, raised, stock_info, batch, twice, io>>

NextSingle == AnalyzeSingleStockOptimized

SpecSingle == InitSingle /\ [][NextSingle]_vars

----------------------------------------------------------------------------
(* SpecBatch: a batch of symbols analysed on the thread pool, by            *)
(* run_analysis_and_send_report (src/src/main.py, from line 88 on: the     *)
(* symbols are fetched and filtered) or by analyze_multiple_stocks         *)
(* (src/src/technical_indicators.py).                                      *)
(*                                                                         *)
(* A worker thread takes the tasks in submission order and runs one task   *)
(* from start to end; the tasks share nothing but the logger, whose        *)
(* records are left out here.  The main thread collects: the driver in     *)
(* completion order (as_completed), analyze_multiple_stocks in submission  *)
(* order.  The driver then sends the report.                               *)

\* the most symbols in a batch
MaxSymbols == 2

\* config.MAX_ANALYSIS_THREADS
MAX_ANALYSIS_THREADS == 4

Entries == {"run_analysis_and_send_report", "analyze_multiple_stocks"}

SymbolNames == <<"RELIANCE", "TCS", "INFY", "HDFCBANK", "ITC">>

Sym(i) == <<SymbolNames[i], ".NS">>

SymIndex(sym) == CHOOSE i \in 1..Len(SymbolNames) : Sym(i) = sym

\* the stock_info fetch_complete_stock_data builds for the i-th symbol
StockInfoOf(i) ==
    Dict(InfoKeys, Num(15000000 * i), Num(25000000), <<SymbolNames[i], "Limited">>)

\* stock_info_map.get(symbol, {})
GetInfo(map, sym) == IF sym \in DOMAIN map THEN map[sym] ELSE EmptyDict

\* a series that passes validate_stock_data and the price check, and one
\* that passes validate_stock_data with an undefined latest close
GoodFrame == Frame(RequiredColumns, SeriesAt(MaxBars, {}, <<>>), MaxBars)
NaNLatestFrame ==
    Frame(RequiredColumns, SeriesAt(MaxBars, {MaxBars}, [i \in {MaxBars} |-> NaN]), MaxBars)

\* a series too short for validate_stock_data
ShortFrame == Frame(RequiredColumns, SeriesAt(2, {}, <<>>), 2)

\* the driver holds the series fetch_complete_stock_data validated;
\* analyze_multiple_stocks is handed any series, or None
FramesOf(e, c) ==
    IF e = "run_analysis_and_send_report"
    THEN {d \in {GoodFrame, NaNLatestFrame, ShortFrame} : validate_stock_data(d, c, FALSE).ok}
    ELSE {GoodFrame, NaNLatestFrame, ShortFrame, NoFrame}

\* TA-Lib returns arrays that end with the RSI r and the MACD and signal
\* tails m and s
TalibCase(close, r, m, s) ==
    [raised |-> FALSE,
     out |-> [rsi |-> WarmupThen(Len(close), <<r>>),
              macd |-> WarmupThen(Len(close), m),
              macd_signal |-> WarmupThen(Len(close), s),
              macd_histogram |-> HistogramOf(WarmupThen(Len(close), m),
                                             WarmupThen(Len(close), s))]]

\* the TA-Lib behaviours tried in a batch: a raise, an oversold RSI with a
\* bullish crossover, a neutral RSI with flat lines
BatchTalib(close) ==
    {[raised |-> TRUE, out |-> NoInd],
     TalibCase(close, Num(1), <<Num(0), Num(1)>>, <<Num(1), Num(0)>>),
     TalibCase(close, Num(3), <<Num(0), Num(0)>>, <<Num(0), Num(0)>>)}

\* a future: pending, running or done, and then the value of the task, the
\* record analyze_stock_with_talib had returned, whether the task raised
Future(state, res, constructed, exc) ==
    [state |-> state, result |-> res, constructed |-> constructed, raised |-> exc]

PendingFuture == Future("pending", None, None, FALSE)

\* analyze_single(symbol, data) of analyze_multiple_stocks: the result of
\* analyze_stock_with_talib, None if it raised
analyze_single(sym, d, c, p, t) ==
    LET a == analyze_stock_with_talib(sym, d, c, p, t) IN
    IF a.raised
    THEN Single(None, None, Append(a.log, LogRec("error", "Error analyzing", -1)))
    ELSE Single(a.result, a.result, a.log)

\* the running tasks
Running == {i \in 1..Len(futures) : futures[i].state = "running"}

AllDone == \A i \in 1..Len(futures) : futures[i].state = "done"

CollectedOverwriting(total, companies, a) ==
    IF a # None
    THEN [total_analyzed |-> total + 1,
          companies_with_signals |-> IF a.signals # <<>> THEN <<a>> ELSE companies]
    ELSE [total_analyzed |-> total, companies_with_signals |-> companies]

CollectedCountingFailures(total, companies, a) ==
    [total_analyzed |-> total + 1,
     companies_with_signals |->
        IF a # None /\ a.signals # <<>> THEN Append(companies, a) ELSE companies]

\* main.py 147-154, under the lock: count the record, keep it if it has
\* signals
Collected(total, companies, a) ==
    IF a # None
    THEN [total_analyzed |-> total + 1,
          companies_with_signals |->
             IF a.signals # <<>> THEN Append(companies, a) ELSE companies]
    ELSE [total_analyzed |-> total, companies_with_signals |-> companies]

AfterResultStoppingAtFailure(a, more) ==
    IF more /\ a # None THEN "wait" ELSE "report"

\* the loop over as_completed goes on while futures are left, whatever the
\* result a of the one just handled
AfterResult(a, more) == IF more THEN "wait" ELSE "report"

\* the environment of send_email_report: the credentials and recipients
\* are configured, the CSV file can be written, the SMTP server accepts
EmailEnvs ==
    [credentials : BOOLEAN, recipients : BOOLEAN, csv_written : BOOLEAN,
     smtp_ok : BOOLEAN]

\* create_csv_report: the path of the file, None without companies or when
\* writing fails
create_csv_report(companies, e) == companies # <<>> /\ e.csv_written

\* create_email_body: the hit rate divides by total_analyzed
create_email_body(companies, total) ==
    [raised |-> total = 0,
     analyzed |-> total,
     alerts |-> Len(companies),
     signal_sections |-> companies # <<>>]

Sent(ok, msg) == [success |-> ok, log |-> <<LogRec(IF ok THEN "info" ELSE "error", msg, -1)>>]

\* send_email_report(companies_with_signals, data_source, total_analyzed)
send_email_report(companies, total, e) ==
    IF ~e.credentials THEN Sent(FALSE, "Email credentials not configured")
    ELSE IF ~e.recipients THEN Sent(FALSE, "No email recipients configured")
    ELSE IF create_email_body(companies, total).raised
    THEN Sent(FALSE, "Unexpected error sending email")
    ELSE IF ~create_csv_report(companies, e)
    THEN Sent(FALSE, "Failed to create CSV report")
    ELSE IF ~e.smtp_ok THEN Sent(FALSE, "SMTP error occurred")
    ELSE Sent(TRUE, "Email sent successfully")

InitBatch ==
    /\ entry \in Entries
    /\ cfg = Config(2, 4, 3)
    /\ pad = FALSE
    /\ max_workers \in {1, MAX_ANALYSIS_THREADS}
    /\ \E n \in 1..MaxSymbols : \E frames \in [1..n -> FramesOf(entry, cfg)] :
        /\ historical_data_dict = [sym \in {Sym(i) : i \in 1..n} |-> frames[SymIndex(sym)]]
        /\ stock_info_map =
              IF entry = "run_analysis_and_send_report"
              THEN [sym \in {Sym(i) : i \in 1..n} |-> StockInfoOf(SymIndex(sym))]
              ELSE <<>>
        \* for symbol, data in stock_data_map.items() if data is not None
        /\ filtered_symbols = SelectSeq([i \in 1..n |-> Sym(i)],
                                        LAMBDA sym : ~frames[SymIndex(sym)].none)
    /\ futures = [i \in 1..Len(filtered_symbols) |-> PendingFuture]
    /\ completed = <<>>
    /\ current = 1
    /\ processed_count = 0
    /\ total_analyzed = 0
    /\ companies_with_signals = <<>>
    /\ results = <<>>
    /\ returned = FALSE
    /\ pc = IF filtered_symbols = <<>> THEN "returned" ELSE "wait"
    /\ log = <<>>
    /\ symbol = <<>>
    /\ data = NoFrame
    /\ args = NoArgs
    /\ calls = <<>>
    /\ ind = NoInd
    /\ result = None
    /\ raised = FALSE
    /\ stock_info = None
    /\ analysis = None
    /\ NoTwice
    /\ NoIo

\* a worker thread takes the oldest pending task
StartTask ==
    /\ pc \in {"wait", "collect"}
    /\ Cardinality(Running) < max_workers
    /\ \E i \in 1..Len(futures) :
        /\ futures[i].state = "pending"
        /\ \A j \in 1..(i - 1) : futures[j].state # "pending"
        /\ futures' = [futures EXCEPT ![i].state = "running"]
    /\ UNCHANGED <<cfg, symbol, data, pad, args, pc, calls, log, ind, result, raised, single, twice, io>>
    /\ UNCHANGED <<entry, max_workers, filtered_symbols, historical_data_dict, stock_info_map, completed, current, processed_count, total_analyzed, companies_with_signals, results, returned>>

\* main.py 99-119: a worker runs analyze_single_stock_optimized to its end
RunAnalyzeSingleStockOptimized(i) ==
    /\ entry = "run_analysis_and_send_report"
    /\ futures[i].state = "running"
    /\ LET sym == filtered_symbols[i]
           d == historical_data_dict[sym]
       IN \E t \in BatchTalib(d.Close) :
           LET r == analyze_single_stock_optimized(sym, d, GetInfo(stock_info_map, sym),
                                                   cfg, pad, t)
           IN futures' = [futures EXCEPT ![i] = Future("done", r.analysis, r.constructed, FALSE)]
    /\ completed' = Append(completed, i)
    /\ UNCHANGED <<cfg, symbol, data, pad, args, pc, calls, log, ind, result, raised, single, twice, io>>
    /\ UNCHANGED <<entry, max_workers, filtered_symbols, historical_data_dict, stock_info_map, current, processed_count, total_analyzed, companies_with_signals, results, returned>>

\* technical_indicators.py 179-186: a worker runs analyze_single to its end
RunAnalyzeSingle(i) ==
    /\ entry = "analyze_multiple_stocks"
    /\ futures[i].state = "running"
    /\ LET sym == filtered_symbols[i]
           d == historical_data_dict[sym]
       IN \E t \in BatchTalib(d.Close) :
           LET r == analyze_single(sym, d, cfg, pad, t)
           IN futures' = [futures EXCEPT ![i] = Future("done", r.analysis, r.constructed, FALSE)]
    /\ completed' = Append(completed, i)
    /\ UNCHANGED <<cfg, symbol, data, pad, args, pc, calls, log, ind, result, raised, single, twice, io>>
    /\ UNCHANGED <<entry, max_workers, filtered_symbols, historical_data_dict, stock_info_map, current, processed_count, total_analyzed, companies_with_signals, results, returned>>

\* main.py 136-142: as_completed yields the next completed future and the
\* main thread counts it, under the lock
NextCompleted ==
    /\ entry = "run_analysis_and_send_report"
    /\ pc = "wait"
    /\ processed_count < Len(completed)
    /\ current' = completed[processed_count + 1]
    /\ processed_count' = processed_count + 1
    /\ pc' = "collect"
    /\ UNCHANGED <<cfg, symbol, data, pad, args, calls, log, ind, result, raised, single, twice, io>>
    /\ UNCHANGED <<entry, max_workers, filtered_symbols, historical_data_dict, stock_info_map, futures, completed, total_analyzed, companies_with_signals, results, returned>>

\* main.py 144-157: the main thread takes the result of the future and
\* aggregates it, under the lock
CollectResult ==
    /\ entry = "run_analysis_and_send_report"
    /\ pc = "collect"
    /\ LET f == futures[current]
           c == Collected(total_analyzed, companies_with_signals, f.result)
       IN
        /\ IF f.raised
           THEN /\ log' = Append(log, LogRec("error", "Error processing analysis result", -1))
                /\ UNCHANGED <<total_analyzed, companies_with_signals>>
           ELSE /\ total_analyzed' = c.total_analyzed
                /\ companies_with_signals' = c.companies_with_signals
                /\ UNCHANGED log
        /\ pc' = AfterResult(f.result, processed_count < Len(futures))
    /\ UNCHANGED <<cfg, symbol, data, pad, args, calls, ind, result, raised, single, twice, io>>
    /\ UNCHANGED <<entry, max_workers, filtered_symbols, historical_data_dict, stock_info_map, futures, completed, current, processed_count, results, returned>>

\* main.py 184-192: the report is sent; the run returns whether it was
SendReport ==
    /\ entry = "run_analysis_and_send_report"
    /\ pc = "report"
    /\ \E e \in EmailEnvs :
        LET sent == send_email_report(companies_with_signals, total_analyzed, e) IN
        /\ returned' = sent.success
        /\ log' = log \o sent.log
                    \o <<IF sent.success
                         THEN LogRec("info", "Email report sent successfully", -1)
                         ELSE LogRec("error", "Failed to send email report", -1)>>
    /\ pc' = "returned"
    /\ UNCHANGED <<cfg, symbol, data, pad, args, calls, ind, result, raised, single, twice, io>>
    /\ UNCHANGED <<entry, max_workers, filtered_symbols, historical_data_dict, stock_info_map, futures, completed, current, processed_count, total_analyzed, companies_with_signals, results>>

\* technical_indicators.py 200-205: future.result() of the next future in
\* submission order, once it is done; results[symbol] = result
CollectInOrder ==
    /\ entry = "analyze_multiple_stocks"
    /\ pc = "wait"
    /\ futures[current].state = "done"
    /\ IF futures[current].raised
       THEN /\ log' = Append(log, LogRec("error", "Error processing analysis future", -1))
            /\ UNCHANGED results
       ELSE /\ results' = (filtered_symbols[current] :> futures[current].result) @@ results
            /\ UNCHANGED log
    /\ current' = current + 1
    /\ pc' = IF current = Len(futures) THEN "returned" ELSE "wait"
    /\ UNCHANGED <<cfg, symbol, data, pad, args, calls, ind, result, raised, single, twice, io>>
    /\ UNCHANGED <<entry, max_workers, filtered_symbols, historical_data_dict, stock_info_map, futures, completed, processed_count, total_analyzed, companies_with_signals, returned>>

NextBatch ==
    \/ StartTask
    \/ \E i \in 1..Len(futures) : RunAnalyzeSingleStockOptimized(i)
    \/ \E i \in 1..Len(futures) : RunAnalyzeSingle(i)
    \/ NextCompleted
    \/ CollectResult
    \/ SendReport
    \/ CollectInOrder

SpecBatch == InitBatch /\ [][NextBatch]_vars

----------------------------------------------------------------------------
(* SpecTwice: analyze_stock_with_talib is invoked twice on the same symbol  *)
(* and series, while analyses of other symbols run.  TA-Lib is a function  *)
(* of its arguments: what it does for the series is chosen once.  The      *)
(* invocations share the config object and the logger.                     *)

\* how many analyses of other symbols run beside the two invocations
MaxOthers == 1

AfterAnalysisSwappingThresholds(c) ==
    [c EXCEPT !.RSI_OVERSOLD = c.RSI_OVERBOUGHT, !.RSI_OVERBOUGHT = c.RSI_OVERSOLD]

\* the config object after an invocation: analyze_stock_with_talib and the
\* functions it calls read config.MIN_DATA_POINTS, config.RSI_* and
\* config.MACD_* and assign none of them
AfterAnalysis(c) == c

\* the series of another symbol
OtherData == Frame(RequiredColumns, SeriesAt(MaxBars, {}, <<>>), MaxBars)

Others == Cardinality({i \in 1..Len(calls) : calls[i] = "other"})

InitTwice ==
    /\ cfg \in {Config(2, 4, mp) : mp \in MinPoints}
    /\ symbol \in Symbols
    /\ DataIn(SingleLengths, 1)
    /\ pad \in (IF HasNaN(data) THEN BOOLEAN ELSE {FALSE})
    /\ talib \in SingleTalib(IF data.none THEN <<>> ELSE data.Close)
    /\ periods = <<>>
    /\ first = None
    /\ args = NoArgs
    /\ pc = "first"
    /\ calls = <<>>
    /\ log = <<>>
    /\ ind = NoInd
    /\ result = None
    /\ raised = FALSE
    /\ stock_info = None
    /\ analysis = None
    /\ NoBatch
    /\ NoIo

\* one whole invocation on (symbol, data): the first, then the second
Invoke ==
    /\ pc \in {"first", "second"}
    /\ LET a == analyze_stock_with_talib(symbol, data, cfg, pad, talib) IN
        /\ IF pc = "first"
           THEN first' = a.result /\ pc' = "second" /\ UNCHANGED result
           ELSE result' = a.result /\ pc' = "done" /\ UNCHANGED first
        /\ log' = log \o a.log
        /\ raised' = (raised \/ a.raised)
    /\ cfg' = AfterAnalysis(cfg)
    /\ calls' = Append(calls, "analyze_stock_with_talib")
    /\ UNCHANGED <<symbol, data, pad, args, ind, single, batch, talib, periods, io>>

\* one whole analysis of another symbol, before, between or after the two
OtherAnalysis ==
    /\ pc \in {"first", "second"}
    /\ Others < MaxOthers
    /\ \E t \in BatchTalib(OtherData.Close) :
        log' = log \o analyze_stock_with_talib(<<"OTHER", ".NS">>, OtherData, cfg, pad, t).log
    /\ cfg' = AfterAnalysis(cfg)
    /\ calls' = Append(calls, "other")
    /\ UNCHANGED <<symbol, data, pad, args, pc, ind, result, raised, outer>>

NextTwice == Invoke \/ OtherAnalysis

SpecTwice == InitTwice /\ [][NextTwice]_vars

----------------------------------------------------------------------------
(* SpecTrend: analyze_stock_with_talib on a series of positive closes that *)
(* declines, rises, or moves against its trend at one bar.  talib.RSI is   *)
(* computed as the contract of computeRSI describes it: Wilder smoothing,  *)
(* with the averages kept exact as numerators over a common denominator.   *)

\* the RSI periods tried
RsiPeriods == {2, 3}

Max0(x) == IF x > 0 THEN x ELSE 0

RECURSIVE Pow(_, _)
Pow(b, e) == IF e = 0 THEN 1 ELSE b * Pow(b, e - 1)

\* the gain and the loss of bar i over bar i - 1
Gain(close, i) == Max0(close[i].v - close[i - 1].v)
Loss(close, i) == Max0(close[i - 1].v - close[i].v)

\* the average gain at bar i > p, times p^(i - p): the mean of the first p
\* gains at bar p + 1, then avg * (p - 1) / p + gain / p
RECURSIVE AvgGain(_, _, _)
AvgGain(close, p, i) ==
    IF i = p + 1
    THEN LET sum[j \in 1..(p + 1)] == IF j = 1 THEN 0 ELSE sum[j - 1] + Gain(close, j)
         IN sum[p + 1]
    ELSE AvgGain(close, p, i - 1) * (p - 1) + Gain(close, i) * Pow(p, i - p - 1)

RECURSIVE AvgLoss(_, _, _)
AvgLoss(close, p, i) ==
    IF i = p + 1
    THEN LET sum[j \in 1..(p + 1)] == IF j = 1 THEN 0 ELSE sum[j - 1] + Loss(close, j)
         IN sum[p + 1]
    ELSE AvgLoss(close, p, i - 1) * (p - 1) + Loss(close, i) * Pow(p, i - p - 1)

\* 100 - 100 / (1 + avgGain / avgLoss), which is 100 * avgGain / (avgGain +
\* avgLoss), and 100 when avgLoss is exactly 0; a value that is no whole
\* number is kept as its floor
RsiOf(g, l) == IF l = 0 THEN Num(100) ELSE Num((100 * g) \div (g + l))

WholeRsi(g, l) == IF l = 0 THEN TRUE ELSE (100 * g) % (g + l) = 0

\* computeRSI(closes, period): the first period entries undefined
computeRSI(close, p) ==
    [i \in 1..Len(close) |->
        IF i <= p THEN NaN ELSE RsiOf(AvgGain(close, p, i), AvgLoss(close, p, i))]

\* every defined entry of the RSI of the series is a whole number
AllWhole(close, p) ==
    \A i \in (p + 1)..Len(close) : WholeRsi(AvgGain(close, p, i), AvgLoss(close, p, i))

\* the series of n bars from start whose bar i moves by step[i]
TrendSeries(n, start, step) ==
    LET c[i \in 1..n] == IF i = 1 THEN start ELSE c[i - 1] + step[i]
    IN [i \in 1..n |-> Num(c[i])]

\* the moves of a series of direction d that is flat at the bars of F and
\* moves against d at the bars of K
Moves(n, d, F, K) == [i \in 1..n |-> IF i \in F THEN 0 ELSE IF i \in K THEN 0 - d ELSE d]

\* the MACD and signal tails tried: a bullish crossover, a bearish
\* crossover, lines still in warm-up
TrendMacd ==
    {<<(<<Num(0), Num(1)>>), (<<Num(1), Num(0)>>)>>,
     <<(<<Num(1), Num(0)>>), (<<Num(0), Num(1)>>)>>,
     <<(<<NaN, NaN>>), (<<NaN, NaN>>)>>}

\* TA-Lib on the series: the RSI of the period, and one of the MACD tails
TrendTalib(close, p, ms) ==
    [raised |-> FALSE,
     out |-> [rsi |-> computeRSI(close, p),
              macd |-> WarmupThen(Len(close), ms[1]),
              macd_signal |-> WarmupThen(Len(close), ms[2]),
              macd_histogram |-> HistogramOf(WarmupThen(Len(close), ms[1]),
                                             WarmupThen(Len(close), ms[2]))]]

InitTrend ==
    /\ cfg \in {Config(20, 80, mp) : mp \in MinPoints}
    /\ symbol \in Symbols
    /\ \E d \in {-1, 1} : \E F \in BarSets(MaxBars, MaxSpecial) : \E K \in BarSets(MaxBars, 1) :
       \E p \in RsiPeriods : \E ms \in TrendMacd :
        LET close == TrendSeries(MaxBars, IF d = 1 THEN 2 ELSE MaxBars + 1,
                                 Moves(MaxBars, d, F, K \ F))
        IN /\ 1 \notin F \cup K
           /\ AllWhole(close, p)
           /\ data = Frame(RequiredColumns, close, MaxBars)
           /\ talib = TrendTalib(close, p, ms)
           /\ periods = <<p>>
    /\ pad = FALSE
    /\ first = None
    /\ args = NoArgs
    /\ pc = "call"
    /\ calls = <<>>
    /\ log = <<>>
    /\ ind = NoInd
    /\ result = None
    /\ raised = FALSE
    /\ stock_info = None
    /\ analysis = None
    /\ NoBatch
    /\ NoIo

\* the whole call on the series; ind is the arrays of the record
AnalyzeWithTalib ==
    /\ pc = "call"
    /\ LET a == analyze_stock_with_talib(symbol, data, cfg, pad, talib) IN
        /\ result' = a.result
        /\ log' = log \o a.log
        /\ raised' = a.raised
        /\ ind' = IF a.result = None THEN NoInd ELSE a.result.indicators
    /\ pc' = "done"
    /\ calls' = Append(calls, "analyze_stock_with_talib")
    /\ UNCHANGED <<cfg, symbol, data, pad, args, outer>>

NextTrend == AnalyzeWithTalib

SpecTrend == InitTrend /\ [][NextTrend]_vars

----------------------------------------------------------------------------
(* SpecWarmup: analyze_stock_with_talib on series without NaN of several   *)
(* lengths, with the periods of the configuration and with smaller ones.   *)
(* TA-Lib returns arrays of the length of its input whose first lookback   *)
(* entries are NaN: the lookback of RSI is the period, that of an EMA is   *)
(* the period - 1, and MACD returns its three arrays from the same entry,  *)
(* after the lookback of the slow EMA plus that of the signal EMA.         *)

RSI_PERIOD == 14
MACD_FAST == 12
MACD_SLOW == 26
MACD_SIGNAL == 9

\* the periods tried: those of the configuration, and smaller ones
PeriodChoices ==
    {<<RSI_PERIOD, MACD_FAST, MACD_SLOW, MACD_SIGNAL>>, <<2, 2, 3, 2>>, <<3, 3, 5, 3>>}

\* the lengths tried: below every lookback of the configuration, at the
\* slow period, one above the lookback of MACD, and 60 bars
WarmupLengths == {MaxBars, MACD_SLOW, MACD_SLOW + MACD_SIGNAL - 1, 60}

RSI_Lookback(p) == p

EMA_Lookback(p) == p - 1

MACD_LookbackOfSlowEma(slow, signal) == EMA_Lookback(slow)

MACD_Lookback(slow, signal) == EMA_Lookback(slow) + EMA_Lookback(signal)

\* the array of n entries: NaN for the lookback, then v, and last at the end
AfterLookback(n, lookback, v, last) ==
    [i \in 1..n |-> IF i <= lookback THEN NaN ELSE IF i = n THEN last ELSE v]

\* TA-Lib on a series without NaN, with latest values r, m and s
WarmupTalib(close, per, r, m, s) ==
    LET n == Len(close)
        macd == AfterLookback(n, MACD_Lookback(per[3], per[4]), Num(0), m)
        signal == AfterLookback(n, MACD_Lookback(per[3], per[4]), Num(0), s)
    IN [raised |-> FALSE,
        out |-> [rsi |-> AfterLookback(n, RSI_Lookback(per[1]), Num(3), r),
                 macd |-> macd,
                 macd_signal |-> signal,
                 macd_histogram |-> HistogramOf(macd, signal)]]

InitWarmup ==
    /\ cfg \in {Config(2, 4, mp) : mp \in MinPoints}
    /\ symbol \in Symbols
    /\ periods \in PeriodChoices
    /\ \E n \in WarmupLengths : data = Frame(RequiredColumns, SeriesAt(n, {}, <<>>), n)
    /\ \E r \in RsiIndValues \ {NaN} : \E m, s \in MacdIndValues \ {NaN} :
        talib = WarmupTalib(data.Close, periods, r, m, s)
    /\ pad = FALSE
    /\ first = None
    /\ args = NoArgs
    /\ pc = "call"
    /\ calls = <<>>
    /\ log = <<>>
    /\ ind = NoInd
    /\ result = None
    /\ raised = FALSE
    /\ stock_info = None
    /\ analysis = None
    /\ NoBatch
    /\ NoIo

NextWarmup == AnalyzeWithTalib

SpecWarmup == InitWarmup /\ [][NextWarmup]_vars

----------------------------------------------------------------------------
(* SpecFetch: one call of fetch_complete_stock_data (src/src/               *)
(* data_fetcher.py).  yfinance is the environment: at every attempt it     *)
(* raises, or returns a price series and, asked for it, the metadata.      *)

MAX_RETRIES == 5
RETRY_DELAY == 180

\* the retry limits tried
RetryLimits == {0, 1, 3, MAX_RETRIES}

\* the config object with the fields the fetch reads
FetchConfig(mr, rd, mp) ==
    [MAX_RETRIES |-> mr, RETRY_DELAY |-> rd] @@ Config(2, 4, mp)

\* the stock_info dict of lines 301-308
FetchedInfo(sym, market_cap, daily_volume_rs, company_name) ==
    [symbol |-> sym] @@ Dict(InfoKeys, market_cap, daily_volume_rs, company_name)

\* an empty DataFrame
EmptyFrame == Frame(RequiredColumns, <<>>, 0)

\* what stock.history(period) returns
Histories == {GoodFrame, ShortFrame, EmptyFrame}

\* stock_info after lines 288-311: None when the info is not asked for,
\* when stock.info raises and when it is empty
InfosOf(sym, asked) ==
    IF asked
    THEN {None} \cup {FetchedInfo(sym, mc, Num(25000000), ReplaceNS(sym)) :
                         mc \in {None, Num(0), Num(3 * Crore)}}
    ELSE {None}

\* not symbol or not isinstance(symbol, str)
InvalidSymbol(sym) == sym = <<>>

MoreAttemptsInclusive(c, a) == a <= c.MAX_RETRIES

\* line 277: for attempt in range(config.MAX_RETRIES)
MoreAttempts(c, a) == a < c.MAX_RETRIES

\* line 327: config.RETRY_DELAY * (attempt + 1)
RetryDelay(c, a) == c.RETRY_DELAY * (a + 1)

AfterValidationDroppingInfo(ok, d, info) ==
    IF ok THEN Pair(d, info) ELSE Pair(NoFrame, None)

\* lines 317-322: return data, stock_info or return None, stock_info
AfterValidation(ok, d, info) ==
    IF ok THEN Pair(d, info) ELSE Pair(NoFrame, info)

\* line 326: attempt < config.MAX_RETRIES - 1
SleepsAfter(c, a) == a < c.MAX_RETRIES - 1

InitFetch ==
    /\ cfg \in {FetchConfig(mr, RETRY_DELAY, mp) : mr \in RetryLimits, mp \in MinPoints}
    /\ symbol \in Symbols \cup {<<>>}
    /\ include_info \in BOOLEAN
    /\ data = NoFrame
    /\ pad = FALSE
    /\ args = NoArgs
    /\ pc = "start"
    /\ calls = <<>>
    /\ log = <<>>
    /\ ind = NoInd
    /\ result = None
    /\ raised = FALSE
    /\ stock_info = None
    /\ analysis = None
    /\ NoBatch
    /\ NoTwice
    /\ attempt = 0
    /\ sleeps = <<>>
    /\ fetched = Pair(NoFrame, None)
    /\ NoAcquire
    /\ NoFiltering

\* lines 273-275: the check of the symbol
CheckSymbol ==
    /\ pc = "start"
    /\ IF InvalidSymbol(symbol)
       THEN /\ pc' = "done"
            /\ log' = Append(log, LogRec("error", "Invalid symbol provided", -1))
       ELSE /\ pc' = "for"
            /\ UNCHANGED log
    /\ UNCHANGED <<cfg, symbol, data, pad, args, calls, ind, result, raised>>
    /\ UNCHANGED <<single, batch, twice, io>>

\* lines 324-329: the except clause of attempt number attempt
ExceptAttempt(lg) ==
    /\ log' = lg \o <<LogRec("warning", "Attempt failed", attempt + 1)>>
                 \o (IF SleepsAfter(cfg, attempt) THEN <<>>
                     ELSE <<LogRec("error", "All retry attempts failed", -1)>>)
    /\ sleeps' = IF SleepsAfter(cfg, attempt)
                 THEN Append(sleeps, RetryDelay(cfg, attempt))
                 ELSE sleeps
    /\ attempt' = attempt + 1
    /\ UNCHANGED <<pc, fetched>>

\* lines 278-329: an attempt in which yf.Ticker or stock.history raises
AttemptRaises ==
    /\ pc = "for"
    /\ MoreAttempts(cfg, attempt)
    /\ calls' = Append(calls, "stock.history")
    /\ data' = NoFrame
    /\ stock_info' = None
    /\ ExceptAttempt(log)
    /\ UNCHANGED <<cfg, symbol, pad, args, ind, result, raised>>
    /\ UNCHANGED <<analysis, batch, twice, include_info, acquire, filtering>>

\* lines 278-329: an attempt in which the series and the metadata arrive:
\* the request delay, the validation, and the return of the pair
AttemptFetches ==
    /\ pc = "for"
    /\ MoreAttempts(cfg, attempt)
    /\ \E d \in Histories : \E info \in InfosOf(symbol, include_info) :
        LET v == validate_stock_data(d, cfg, pad) IN
        /\ data' = d
        /\ stock_info' = info
        /\ calls' = calls \o <<"stock.history", "time.sleep(REQUEST_DELAY)", "validate_stock_data">>
        /\ IF v.raised
           THEN ExceptAttempt(log \o v.log)
           ELSE /\ fetched' = AfterValidation(v.ok, d, info)
                /\ log' = log \o v.log
                        \o <<IF v.ok THEN LogRec("debug", "Successfully fetched", -1)
                             ELSE LogRec("warning", "Data validation failed", -1)>>
                /\ pc' = "done"
                /\ UNCHANGED <<attempt, sleeps>>
    /\ UNCHANGED <<cfg, symbol, pad, args, ind, result, raised>>
    /\ UNCHANGED <<analysis, batch, twice, include_info, acquire, filtering>>

\* line 331: the loop is exhausted
ReturnNoneNone ==
    /\ pc = "for"
    /\ ~MoreAttempts(cfg, attempt)
    /\ pc' = "done"
    /\ fetched' = Pair(NoFrame, None)
    /\ UNCHANGED <<cfg, symbol, data, pad, args, calls, log, ind, result, raised>>
    /\ UNCHANGED <<single, batch, twice, include_info, attempt, sleeps, acquire, filtering>>

NextFetch == CheckSymbol \/ AttemptRaises \/ AttemptFetches \/ ReturnNoneNone

SpecFetch == InitFetch /\ [][NextFetch]_vars

\* every step of the call is taken in the end: the attempts and the sleeps
\* between them return
SpecFetchFair == SpecFetch /\ WF_vars(NextFetch)

----------------------------------------------------------------------------
(* SpecSymbols: one call of get_nse_stock_symbols.  The NSE website and    *)
(* the local list data/nse_symbols_list.py are the environment: what they  *)
(* would return is fixed when the call starts.  A name is a string, the    *)
(* empty string included; a Yahoo symbol is the name and the suffix.       *)

\* how many names a source lists
MaxNames == 2

\* the entries of a list of names: two names and the empty string
Names == {"TCS", "INFY", ""}

\* symbol_limit: None, or an integer
SymbolLimits == {None, Num(-1), Num(0), Num(1), Num(2)}

\* the config object with the field the acquisition reads
AcquireConfig(use_web) == [USE_WEB_FETCH |-> use_web] @@ Config(2, 4, 3)

\* lines 195-198
popular_stocks ==
    << <<"RELIANCE", ".NS">>, <<"TCS", ".NS">>, <<"HDFCBANK", ".NS">>, <<"INFY", ".NS">>,
       <<"HINDUNILVR", ".NS">>, <<"ICICIBANK", ".NS">>, <<"KOTAKBANK", ".NS">>,
       <<"BHARTIARTL", ".NS">>, <<"SBIN", ".NS">>, <<"BAJFINANCE", ".NS">> >>

\* [f"{symbol}.NS" for symbol in list if symbol and isinstance(symbol, str)]
Yahoo(list) ==
    LET kept == SelectSeq(list, LAMBDA name : name # "")
    IN [i \in 1..Len(kept) |-> <<kept[i], ".NS">>]

\* if symbol_limit and symbol_limit > 0: list = list[:symbol_limit]
Limited(list, limit) ==
    IF limit # None /\ limit.v # 0 /\ limit.v > 0
    THEN SubSeq(list, 1, IF limit.v < Len(list) THEN limit.v ELSE Len(list))
    ELSE list

WebSucceededWhenNotNone(w) == w.ok

\* web_symbols and len(web_symbols) > 0
WebSucceeded(w) == w.ok /\ Len(w.list) > 0

\* fallback_symbols and len(fallback_symbols) > 0
FallbackSucceeded(list) == Len(list) > 0

InitSymbols ==
    /\ cfg \in {AcquireConfig(b) : b \in BOOLEAN}
    /\ symbol_limit \in SymbolLimits
    /\ web_symbols \in {WebResult(FALSE, <<>>)}
                           \cup {WebResult(TRUE, l) : l \in SeqsUpTo(Names, MaxNames)}
    /\ fallback_symbols \in SeqsUpTo(Names, MaxNames)
    /\ symbols = <<>>
    /\ data_source = "none"
    /\ symbol = <<>>
    /\ data = NoFrame
    /\ pad = FALSE
    /\ args = NoArgs
    /\ pc = "web"
    /\ calls = <<>>
    /\ log = <<>>
    /\ ind = NoInd
    /\ result = None
    /\ raised = FALSE
    /\ stock_info = None
    /\ analysis = None
    /\ NoBatch
    /\ NoTwice
    /\ NoFetch
    /\ NoFiltering

\* lines 126-154: the web fetch, when it is enabled
TryWeb ==
    /\ pc = "web"
    /\ IF ~cfg.USE_WEB_FETCH
       THEN /\ pc' = "fallback"
            /\ log' = Append(log, LogRec("info", "Web fetch disabled", -1))
            /\ UNCHANGED <<calls, symbols, data_source>>
       ELSE /\ calls' = Append(calls, "fetch_nse_equity_list")
            /\ IF WebSucceeded(web_symbols)
               THEN /\ symbols' = Limited(Yahoo(web_symbols.list), symbol_limit)
                    /\ data_source' = "live_website"
                    /\ pc' = "done"
                    /\ UNCHANGED log
               ELSE /\ pc' = "fallback"
                    /\ log' = Append(log, LogRec("warning", "Web fetch returned empty", -1))
                    /\ UNCHANGED <<symbols, data_source>>
    /\ UNCHANGED <<cfg, symbol, data, pad, args, ind, result, raised>>
    /\ UNCHANGED <<single, batch, twice, include_info, attempt, sleeps, fetched, filtering>>
    /\ UNCHANGED <<symbol_limit, web_symbols, fallback_symbols>>

\* lines 171-191: the local list
TryFallback ==
    /\ pc = "fallback"
    /\ calls' = Append(calls, "get_fallback_nse_symbols")
    /\ IF FallbackSucceeded(fallback_symbols)
       THEN /\ symbols' = Limited(Yahoo(fallback_symbols), symbol_limit)
            /\ data_source' = "first_fallback"
            /\ pc' = "done"
            /\ UNCHANGED log
       ELSE /\ pc' = "popular"
            /\ log' = Append(log, LogRec("error", "Fallback symbols are empty", -1))
            /\ UNCHANGED <<symbols, data_source>>
    /\ UNCHANGED <<cfg, symbol, data, pad, args, ind, result, raised>>
    /\ UNCHANGED <<single, batch, twice, include_info, attempt, sleeps, fetched, filtering>>
    /\ UNCHANGED <<symbol_limit, web_symbols, fallback_symbols>>

\* lines 193-204: the built-in list
UsePopular ==
    /\ pc = "popular"
    /\ calls' = Append(calls, "popular_stocks")
    /\ symbols' = Limited(popular_stocks, symbol_limit)
    /\ data_source' = "second_fallback"
    /\ pc' = "done"
    /\ log' = Append(log, LogRec("error", "Both web and fallback failed", -1))
    /\ UNCHANGED <<cfg, symbol, data, pad, args, ind, result, raised>>
    /\ UNCHANGED <<single, batch, twice, include_info, attempt, sleeps, fetched, filtering>>
    /\ UNCHANGED <<symbol_limit, web_symbols, fallback_symbols>>

NextSymbols == TryWeb \/ TryFallback \/ UsePopular

SpecSymbols == InitSymbols /\ [][NextSymbols]_vars

----------------------------------------------------------------------------
(* SpecFilter: one call of filter_and_fetch_stocks_efficiently: the pool   *)
(* of fetch_multiple_stocks_complete_data runs fetch_single_stock_complete *)
(* for every symbol of the list, the main thread stores what the futures   *)
(* give in completion order, and the filter loop goes through the dict.    *)
(* A dict is the sequence of its items in insertion order.                 *)

MAX_FETCH_THREADS == 2

Item(sym, v) == [symbol |-> sym, value |-> v]

Keys(d) == {d[i].symbol : i \in 1..Len(d)}

\* d[symbol]
Lookup(d, sym) == (CHOOSE i \in 1..Len(d) : d[i].symbol = sym)

\* d[symbol] = v: a key the dict holds keeps its place
Put(d, sym, v) ==
    IF sym \in Keys(d)
    THEN [i \in 1..Len(d) |-> IF d[i].symbol = sym THEN Item(sym, v) ELSE d[i]]
    ELSE Append(d, Item(sym, v))

\* the arguments min_market_cap_cr and min_daily_volume_cr
FilterArgs(mc, dv) == [min_market_cap_cr |-> mc, min_daily_volume_cr |-> dv]

\* a future of the fetch pool: its state, the pair of the task, whether
\* the task caught an exception of the fetch, whether the task raised
FetchFuture(state, pair, caught, exc) ==
    [state |-> state, result |-> pair, caught |-> caught, raised |-> exc]

PendingFetch == FetchFuture("pending", Pair(NoFrame, None), FALSE, FALSE)

\* the metadata tried: none, an undefined market cap, a market cap below
\* the bound, a traded value below the bound, both at the bounds
FilterInfos(sym) ==
    {None,
     FetchedInfo(sym, None, Num(Crore), ReplaceNS(sym)),
     FetchedInfo(sym, Num(3 * Crore - 1), Num(Crore), ReplaceNS(sym)),
     FetchedInfo(sym, Num(3 * Crore), Num(Crore - 1), ReplaceNS(sym)),
     FetchedInfo(sym, Num(3 * Crore), Num(Crore), ReplaceNS(sym))}

\* lines 377-384: what fetch_single_stock_complete ends with: the pair
\* fetch_complete_stock_data returned, (None, None) when it raised, or an
\* exception of its own
FetchOutcomes(sym, c) ==
    {FetchFuture("done", AfterValidation(validate_stock_data(d, c, FALSE).ok, d, info),
                 FALSE, FALSE) :
        d \in {GoodFrame, ShortFrame}, info \in FilterInfos(sym)}
    \cup {FetchFuture("done", Pair(NoFrame, None), TRUE, FALSE),
          FetchFuture("done", Pair(NoFrame, None), FALSE, TRUE)}

StoredSkippingRaised(d, f, sym) == IF f.raised THEN d ELSE Put(d, sym, f.result)

\* lines 398-404: results[symbol] = (data, info), or (None, None) when the
\* future raised
Stored(d, f, sym) ==
    IF f.raised THEN Put(d, sym, Pair(NoFrame, None)) ELSE Put(d, sym, f.result)

PassesCriteriaStrict(market_cap, daily_volume_rs, a) ==
    /\ market_cap.v > a.min_market_cap_cr * Crore
    /\ daily_volume_rs.v > a.min_daily_volume_cr * Crore

\* line 452, with min_market_cap = min_market_cap_cr * 10**7
PassesCriteria(market_cap, daily_volume_rs, a) ==
    /\ market_cap.v >= a.min_market_cap_cr * Crore
    /\ daily_volume_rs.v >= a.min_daily_volume_cr * Crore

\* line 452 compares None with a number: a TypeError
CriteriaRaise(market_cap, daily_volume_rs, a) ==
    \/ market_cap = None
    \/ market_cap.v >= a.min_market_cap_cr * Crore /\ daily_volume_rs = None

\* lines 446-468: what the loop body does with one item: whether it
\* includes the symbol, whether it counts it as failed, what it logs
FilterItemOf(item, a) ==
    LET info == item.value.info
        market_cap == Get(info, "market_cap", Num(0))
        daily_volume_rs == Get(info, "daily_volume_rs", Num(0))
    IN
    IF ~Truthy(info)
    THEN [include |-> FALSE, failed |-> TRUE,
          log |-> LogRec("warning", "Failed to fetch stock info", -1)]
    ELSE IF CriteriaRaise(market_cap, daily_volume_rs, a)
    THEN [include |-> FALSE, failed |-> TRUE,
          log |-> LogRec("error", "Error processing", -1)]
    ELSE IF ~PassesCriteria(market_cap, daily_volume_rs, a)
    THEN [include |-> FALSE, failed |-> FALSE,
          log |-> LogRec("debug", "filtered out", -1)]
    ELSE IF item.value.data.none
    THEN [include |-> FALSE, failed |-> TRUE,
          log |-> LogRec("warning", "Passed criteria but missing historical data", -1)]
    ELSE [include |-> TRUE, failed |-> FALSE, log |-> LogRec("info", "INCLUDED", -1)]

InitFilter ==
    /\ entry = "filter_and_fetch_stocks_efficiently"
    /\ cfg = Config(2, 4, 3)
    /\ args = FilterArgs(3, 1)
    /\ max_workers \in {1, MAX_FETCH_THREADS}
    /\ \E n \in 1..MaxSymbols : symbols \in [1..n -> {Sym(1), Sym(2)}]
    /\ futures = [i \in 1..Len(symbols) |-> PendingFetch]
    /\ completed = <<>>
    /\ current = 1
    /\ processed_count = 0
    /\ results = <<>>
    /\ filtered_symbols = <<>>
    /\ historical_data_dict = <<>>
    /\ stock_info_list = <<>>
    /\ failed_count = 0
    /\ stock_info_map = <<>>
    /\ total_analyzed = 0
    /\ companies_with_signals = <<>>
    /\ returned = FALSE
    /\ pc = "wait"
    /\ pad = FALSE
    /\ log = <<>>
    /\ symbol = <<>>
    /\ data = NoFrame
    /\ calls = <<>>
    /\ ind = NoInd
    /\ result = None
    /\ raised = FALSE
    /\ stock_info = None
    /\ analysis = None
    /\ NoTwice
    /\ NoFetch
    /\ symbol_limit = None
    /\ web_symbols = WebResult(FALSE, <<>>)
    /\ fallback_symbols = <<>>
    /\ data_source = "none"

\* lines 377-384: a worker runs fetch_single_stock_complete to its end
RunFetchSingleStockComplete(i) ==
    /\ futures[i].state = "running"
    /\ \E f \in FetchOutcomes(symbols[i], cfg) : futures' = [futures EXCEPT ![i] = f]
    /\ completed' = Append(completed, i)
    /\ UNCHANGED <<cfg, symbol, data, pad, args, pc, calls, log, ind, result, raised, single, twice, io>>
    /\ UNCHANGED <<entry, max_workers, filtered_symbols, historical_data_dict, stock_info_map, current, processed_count, total_analyzed, companies_with_signals, results, returned>>

\* lines 392-396: as_completed yields the next completed future and the
\* main thread counts it, under the lock
NextFetched ==
    /\ entry = "filter_and_fetch_stocks_efficiently"
    /\ pc = "wait"
    /\ processed_count < Len(completed)
    /\ current' = completed[processed_count + 1]
    /\ processed_count' = processed_count + 1
    /\ pc' = "collect"
    /\ UNCHANGED <<cfg, symbol, data, pad, args, calls, log, ind, result, raised, single, twice, io>>
    /\ UNCHANGED <<entry, max_workers, filtered_symbols, historical_data_dict, stock_info_map, futures, completed, total_analyzed, companies_with_signals, results, returned>>

\* lines 398-404: the main thread stores what the future gives; after the
\* last future the pool is left and the filter loop starts
StoreFetched ==
    /\ entry = "filter_and_fetch_stocks_efficiently"
    /\ pc = "collect"
    /\ results' = Stored(results, futures[current], symbols[current])
    /\ log' = IF futures[current].raised
              THEN Append(log, LogRec("error", "Error processing future", -1))
              ELSE log
    /\ IF processed_count < Len(futures)
       THEN pc' = "wait" /\ UNCHANGED current
       ELSE pc' = "filter" /\ current' = 1
    /\ UNCHANGED <<cfg, symbol, data, pad, args, calls, ind, result, raised, single, twice, io>>
    /\ UNCHANGED <<entry, max_workers, filtered_symbols, historical_data_dict, stock_info_map, futures, completed, processed_count, total_analyzed, companies_with_signals, returned>>

\* lines 445-473: the loop body for the next item of complete_data, and
\* the return after the last
FilterItem ==
    /\ pc = "filter"
    /\ LET item == results[current]
           r == FilterItemOf(item, args)
       IN
        /\ filtered_symbols' = IF r.include THEN Append(filtered_symbols, item.symbol)
                               ELSE filtered_symbols
        /\ historical_data_dict' = IF r.include
                                   THEN (item.symbol :> item.value.data) @@ historical_data_dict
                                   ELSE historical_data_dict
        /\ stock_info_list' = IF r.include THEN Append(stock_info_list, item.value.info)
                              ELSE stock_info_list
        /\ failed_count' = IF r.failed THEN failed_count + 1 ELSE failed_count
        /\ log' = Append(log, r.log)
    /\ current' = current + 1
    /\ pc' = IF current = Len(results) THEN "returned" ELSE "filter"
    /\ UNCHANGED <<cfg, symbol, data, pad, args, calls, ind, result, raised, single, twice>>
    /\ UNCHANGED <<include_info, attempt, sleeps, fetched, acquire>>
    /\ UNCHANGED <<entry, max_workers, stock_info_map, futures, completed, processed_count, total_analyzed, companies_with_signals, results, returned>>

NextFilter ==
    \/ StartTask
    \/ \E i \in 1..Len(futures) : RunFetchSingleStockComplete(i)
    \/ NextFetched
    \/ StoreFetched
    \/ FilterItem

SpecFilter == InitFilter /\ [][NextFilter]_vars

----------------------------------------------------------------------------
(* SpecEdge: calculate_macd_signals called on every prefix of a MACD line  *)
(* and a signal line, the histogram being their difference as MACD         *)
(* computes it; results[i] is what the prefix ending at bar i is given.    *)

MaxPrefix == 3

SignalValues == {NaN, Num(0), Num(1)}

\* arr[:i]
PrefixOf(s, i) == SubSeq(s, 1, i)

InitEdge ==
    /\ cfg = Config(2, 4, 3)
    /\ symbol = "INFY.NS"
    /\ data = NoFrame
    /\ pad = FALSE
    /\ \E n \in 1..MaxPrefix : \E m \in [1..n -> MacdValues], s \in [1..n -> SignalValues] :
           args = [NoArgs EXCEPT !.macd = m, !.signal = s, !.histogram = HistogramOf(m, s)]
    /\ pc = "call"
    /\ calls = <<>>
    /\ log = <<>>
    /\ ind = NoInd
    /\ result = <<>>
    /\ raised = FALSE
    /\ stock_info = None
    /\ analysis = None
    /\ NoBatch
    /\ NoTwice
    /\ NoIo

\* lines 45-77 on the bars up to the next one
ClassifyPrefix ==
    /\ pc = "call"
    /\ current < Len(args.macd)
    /\ LET i == current + 1
           r == calculate_macd_signals(PrefixOf(args.macd, i), PrefixOf(args.signal, i),
                                       PrefixOf(args.histogram, i))
       IN
        /\ result' = r.signals
        /\ raised' = r.raised
        /\ results' = Append(results, r.signals)
        /\ current' = i
    /\ calls' = Append(calls, "calculate_macd_signals")
    /\ UNCHANGED <<cfg, symbol, data, pad, args, pc, log, ind, single, twice, io>>
    /\ UNCHANGED <<entry, max_workers, filtered_symbols, historical_data_dict, stock_info_map, futures, completed, processed_count, total_analyzed, companies_with_signals, returned>>

NextEdge == ClassifyPrefix

SpecEdge == InitEdge /\ [][NextEdge]_vars

----------------------------------------------------------------------------
(* Claims about the configuration and the assembled record. *)

Called(name) == \E i \in 1..Len(calls) : calls[i] = name

\* C11: a configuration with RSI_OVERSOLD >= RSI_OVERBOUGHT is rejected when
\* it is constructed, so that no classification runs under overlapping
\* thresholds.
C11_Original ==
    cfg.RSI_OVERSOLD >= cfg.RSI_OVERBOUGHT => ~Called("calculate_rsi_signals")

RsiKinds == {"RSI Oversold", "RSI Overbought"}
MacdKinds == {"MACD Bullish Crossover", "MACD Bearish Crossover"}

\* C12: the signal list of a returned record has at most two entries, each
\* an RSI or a MACD signal, and no MACD signal stands before an RSI signal.
C12_RsiBeforeMacd ==
    result # None =>
        LET s == result.signals IN
        /\ Len(s) <= 2
        /\ \A i \in 1..Len(s) : s[i].kind \in RsiKinds \cup MacdKinds
        /\ \A i, j \in 1..Len(s) :
              (i < j /\ s[j].kind \in RsiKinds) => s[i].kind \notin MacdKinds

\* a record with an RSI signal and a MACD signal
C12_Witness ==
    /\ pc = "done"
    /\ result # None
    /\ Len(result.signals) = 2
    /\ result.signals[1].kind \in RsiKinds
    /\ result.signals[2].kind \in MacdKinds

\* no metadata is supplied: stock_info is None or an empty dict
NoMetadata(info) == info = None \/ info.keys = {}

\* C13: without metadata the task returns what analyze_stock_with_talib
\* returned, a record that has no market_cap_cr and no daily_volume_cr field
\* (or the rejection); with metadata, a returned record has market_cap_cr and
\* daily_volume_cr equal to the supplied values divided by 10^7 and the
\* supplied company_name.
C13_MetadataMerge ==
    pc = "returned" =>
        /\ NoMetadata(stock_info) =>
              /\ analysis = result
              /\ analysis # None =>
                    {"market_cap_cr", "daily_volume_cr"} \cap DOMAIN analysis = {}
        /\ (~NoMetadata(stock_info) /\ analysis # None) =>
              /\ {"market_cap_cr", "daily_volume_cr"} \subseteq DOMAIN analysis
              /\ "market_cap" \in stock_info.keys =>
                    analysis.market_cap_cr.n * Crore
                        = stock_info.market_cap.v * analysis.market_cap_cr.d
              /\ "daily_volume_rs" \in stock_info.keys =>
                    analysis.daily_volume_cr.n * Crore
                        = stock_info.daily_volume_rs.v * analysis.daily_volume_cr.d
              /\ "company_name" \in stock_info.keys =>
                    analysis.company_name = stock_info.company_name

\* a record was returned for a symbol whose stock_info is the empty dict
C13_Witness ==
    /\ pc = "returned"
    /\ stock_info = EmptyDict
    /\ analysis # None
    /\ analysis = result
    /\ analysis.company_name = CompanyName(symbol)

----------------------------------------------------------------------------
(* Claims about a batch. *)

IsRun == entry = "run_analysis_and_send_report"

\* the futures whose task returned a record, and those with signals
Succeeded == {i \in 1..Len(futures) : futures[i].state = "done" /\ futures[i].result # None}
WithSignals == {i \in Succeeded : futures[i].result.signals # <<>>}

\* the entries of companies_with_signals that are the record of future i
EntriesOf(i) ==
    {k \in 1..Len(companies_with_signals) : companies_with_signals[k] = futures[i].result}

\* C14 as stated: once analyze_stock_with_talib has returned a record, no
\* later step (metadata merge, aggregation, reporting) adds, removes or
\* changes a field of it.
C14_Original ==
    \A i \in 1..Len(futures) :
        (futures[i].state = "done" /\ futures[i].constructed # None) =>
            /\ futures[i].result = futures[i].constructed
            /\ \A k \in 1..Len(companies_with_signals) :
                  companies_with_signals[k].symbol = filtered_symbols[i] =>
                      companies_with_signals[k] = futures[i].constructed

MergedFields == {"market_cap_cr", "daily_volume_cr"}

\* C14: the metadata merge adds market_cap_cr and daily_volume_cr to the
\* record analyze_stock_with_talib returned and replaces its company_name;
\* every other field, the price series among them, stays as constructed,
\* and aggregation and reporting change no field of the merged record.
C14_OnlyMergeChanges ==
    \A i \in 1..Len(futures) :
        (futures[i].state = "done" /\ futures[i].constructed # None) =>
            LET made == futures[i].constructed
                kept == futures[i].result
                sym == filtered_symbols[i]
            IN
            /\ kept # None
            /\ DOMAIN kept = DOMAIN made \cup (IF IsRun THEN MergedFields ELSE {})
            /\ \A field \in DOMAIN made \ {"company_name"} : kept[field] = made[field]
            /\ ~IsRun => kept = made
            /\ kept.data = historical_data_dict[sym]
            /\ \A k \in 1..Len(companies_with_signals) :
                  companies_with_signals[k].symbol = sym =>
                      companies_with_signals[k] = kept
            /\ (~IsRun /\ sym \in DOMAIN results) => results[sym] = made

\* the run has returned; a record whose company_name the merge replaced and
\* to which it added the market cap is in companies_with_signals
C14_Witness ==
    /\ IsRun
    /\ pc = "returned"
    /\ \E i \in WithSignals :
        /\ EntriesOf(i) # {}
        /\ futures[i].result.company_name # futures[i].constructed.company_name
        /\ "market_cap_cr" \in DOMAIN futures[i].result
        /\ "market_cap_cr" \notin DOMAIN futures[i].constructed

\* C18: one symbol's failure does not abort the batch: until the function
\* returns some step is possible, and when the loop over the futures has
\* ended every submitted symbol was analysed and its outcome collected (by
\* run_analysis_and_send_report: counted; by analyze_multiple_stocks: stored
\* in results).
C18_FailureDoesNotAbort ==
    /\ pc # "returned" => ENABLED NextBatch
    /\ pc \in {"report", "returned"} =>
          /\ AllDone
          /\ IsRun =>
                /\ processed_count = Len(filtered_symbols)
                /\ {completed[k] : k \in 1..Len(completed)} = 1..Len(filtered_symbols)
                /\ total_analyzed = Cardinality(Succeeded)
          /\ ~IsRun =>
                /\ DOMAIN results = {filtered_symbols[i] : i \in 1..Len(futures)}
                /\ \A i \in 1..Len(futures) :
                      results[filtered_symbols[i]] = futures[i].result

\* the first future collected had failed and a record was collected after it
C18_Witness ==
    /\ IsRun
    /\ pc = "report"
    /\ Len(completed) >= 2
    /\ futures[completed[1]].result = None
    /\ futures[completed[2]].result # None
    /\ total_analyzed >= 1

\* the futures the main thread has handled so far
Handled ==
    {completed[k] : k \in 1..(IF pc = "collect" THEN processed_count - 1 ELSE processed_count)}

\* C19: in run_analysis_and_send_report, whatever the order of completion,
\* the shared values count exactly what the main thread has handled, and
\* once the pool has drained companies_with_signals holds each record with
\* signals exactly once and nothing else, total_analyzed is the number of
\* records and processed_count the number of submitted symbols.
C19_AggregationExact ==
    IsRun =>
        /\ processed_count <= Len(completed)
        /\ total_analyzed = Cardinality(Handled \cap Succeeded)
        /\ Len(companies_with_signals) = Cardinality(Handled \cap WithSignals)
        /\ \A i \in Handled \cap WithSignals : Cardinality(EntriesOf(i)) = 1
        /\ pc \in {"report", "returned"} =>
              /\ processed_count = Len(filtered_symbols)
              /\ total_analyzed = Cardinality(Succeeded)
              /\ Len(companies_with_signals) = Cardinality(WithSignals)
              /\ \A i \in WithSignals : Cardinality(EntriesOf(i)) = 1
              /\ \A k \in 1..Len(companies_with_signals) :
                    \E i \in WithSignals : k \in EntriesOf(i)

\* two tasks completed in the reverse of their submission and both records
\* are in companies_with_signals, in the order of completion
C19_Witness ==
    /\ IsRun
    /\ pc = "report"
    /\ Len(completed) >= 2
    /\ completed[1] > completed[2]
    /\ Len(companies_with_signals) >= 2
    /\ companies_with_signals[1] = futures[completed[1]].result
    /\ companies_with_signals[2] = futures[completed[2]].result

\* C20: when run_analysis_and_send_report has returned, a failed symbol is
\* not counted in total_analyzed and has no entry in companies_with_signals;
\* the run returns False because of failed symbols (the report body cannot
\* be built) exactly when every symbol failed, and with a symbol analysed
\* it returns False only for a reason of the report: missing credentials or
\* recipients, no CSV file, SMTP.
C20_FailedSymbolsNotFatal ==
    (IsRun /\ pc = "returned") =>
        /\ total_analyzed = Cardinality(Succeeded)
        /\ \A i \in 1..Len(futures) : futures[i].result = None =>
              \A k \in 1..Len(companies_with_signals) :
                  companies_with_signals[k].symbol # filtered_symbols[i]
        /\ Succeeded = {} => ~returned
        /\ "Unexpected error sending email" \in Msgs(log) => Succeeded = {}
        /\ (Succeeded # {} /\ ~returned) =>
              Msgs(log) \cap {"Email credentials not configured",
                              "No email recipients configured",
                              "Failed to create CSV report",
                              "SMTP error occurred"} # {}

\* the run returned True although a symbol of the batch had failed
C20_Witness ==
    /\ IsRun
    /\ pc = "returned"
    /\ returned
    /\ \E i \in 1..Len(futures) : futures[i].result = None
    /\ total_analyzed >= 1
    /\ Len(companies_with_signals) >= 1

----------------------------------------------------------------------------
(* Claims about repeated invocation. *)

----------------------------------------------------------------------------
(* Claims about trending series. *)

\* the closes never rise and fall at least once; never fall and rise at
\* least once
Declining(close) ==
    /\ \A i \in 2..Len(close) : close[i].v <= close[i - 1].v
    /\ \E i \in 2..Len(close) : close[i].v < close[i - 1].v

Rising(close) ==
    /\ \A i \in 2..Len(close) : close[i].v >= close[i - 1].v
    /\ \E i \in 2..Len(close) : close[i].v > close[i - 1].v

HasSignal(rec, kind) == \E i \in 1..Len(rec.signals) : rec.signals[i].kind = kind

\* C16: for a series of positive closes with enough bars that declines,
\* the analysis returns a record with a defined RSI below 20 (the average
\* gain is zero, so the RSI is 0) whose signals contain RSI Oversold; for
\* one that rises it returns a record with an RSI above 80 (the average
\* loss is zero, so the RSI is 100) whose signals contain RSI Overbought.
C16_TrendSignals ==
    pc = "done" /\ data.rows >= cfg.MIN_DATA_POINTS =>
        /\ Declining(data.Close) =>
            /\ result # None
            /\ result.rsi = Num(0)
            /\ FLt(result.rsi, Num(20))
            /\ HasSignal(result, "RSI Oversold")
            /\ ~HasSignal(result, "RSI Overbought")
        /\ Rising(data.Close) =>
            /\ result # None
            /\ result.rsi = Num(100)
            /\ FGt(result.rsi, Num(80))
            /\ HasSignal(result, "RSI Overbought")
            /\ ~HasSignal(result, "RSI Oversold")

\* a declining series with a flat bar was analysed and its record carries
\* RSI Oversold before a MACD signal
C16_Witness ==
    /\ pc = "done"
    /\ Declining(data.Close)
    /\ \E i \in 2..Len(data.Close) : data.Close[i] = data.Close[i - 1]
    /\ result # None
    /\ result.rsi = Num(0)
    /\ Len(result.signals) = 2
    /\ result.signals[1].kind = "RSI Oversold"

\* a rising series was analysed and its record carries RSI Overbought
C16_WitnessRising ==
    /\ pc = "done"
    /\ Rising(data.Close)
    /\ result # None
    /\ result.rsi = Num(100)
    /\ HasSignal(result, "RSI Overbought")

\* a series that moves against its trend once has an RSI strictly between
\* the thresholds and no RSI signal
TrendBroken ==
    /\ pc = "done"
    /\ result # None
    /\ FGt(result.rsi, Num(20)) /\ FLt(result.rsi, Num(80))
    /\ ~HasSignal(result, "RSI Oversold") /\ ~HasSignal(result, "RSI Overbought")

----------------------------------------------------------------------------
(* Claims about warm-up. *)

\* the first k entries of arr, or all of them when it is shorter, are NaN,
\* and the entry after them is defined when there is one
UndefinedExactly(arr, k) ==
    /\ \A i \in 1..Len(arr) : i <= k => IsNaN(arr[i])
    /\ Len(arr) > k => ~IsNaN(arr[k + 1])

SameLengths(i, n) ==
    /\ Len(i.rsi) = n
    /\ Len(i.macd) = n
    /\ Len(i.macd_signal) = n
    /\ Len(i.macd_histogram) = n

----------------------------------------------------------------------------
(* Claims about fetch_complete_stock_data. *)

\* the attempts made so far
Attempts == Cardinality({i \in 1..Len(calls) : calls[i] = "stock.history"})

\* the attempts that ended in the except clause
FailedAttempts ==
    Cardinality({i \in 1..Len(log) : log[i].msg = "Attempt failed"})

\* at most MAX_RETRIES attempts are made; every attempt but the latest
\* raised; when MAX_RETRIES attempts raised the call returns (None, None)
BoundedRetries ==
    /\ Attempts <= cfg.MAX_RETRIES
    /\ FailedAttempts = attempt
    /\ Attempts - 1 <= FailedAttempts /\ FailedAttempts <= Attempts
    /\ pc = "for" => FailedAttempts = Attempts
    /\ pc = "done" /\ FailedAttempts = cfg.MAX_RETRIES /\ ~InvalidSymbol(symbol) =>
        fetched = Pair(NoFrame, None)

\* C21: the call makes at most MAX_RETRIES attempts, it makes a further
\* attempt only after an attempt that raised, it returns (None, None) when
\* MAX_RETRIES attempts raised, and it always terminates.
C21_BoundedRetries == []BoundedRetries /\ <>(pc = "done")

\* every attempt raised and the call returned (None, None)
C21_Witness ==
    /\ pc = "done"
    /\ cfg.MAX_RETRIES = MAX_RETRIES
    /\ Attempts = MAX_RETRIES
    /\ FailedAttempts = MAX_RETRIES
    /\ fetched = Pair(NoFrame, None)

\* C22 as stated: every wait between a failed attempt and the next attempt
\* is at least twice the wait before it.
C22_Original ==
    \A k \in 1..(Len(sleeps) - 1) : sleeps[k + 1] >= 2 * sleeps[k]

\* the waits grow by RETRY_DELAY: the wait after the k-th consecutive
\* failure is k * RETRY_DELAY, and no wait follows the last attempt
LinearBackoff ==
    /\ \A k \in 1..Len(sleeps) : sleeps[k] = k * cfg.RETRY_DELAY
    /\ Len(sleeps) <= FailedAttempts
    /\ Len(sleeps) < cfg.MAX_RETRIES \/ cfg.MAX_RETRIES = 0

\* C25: an attempt that does not raise ends the call: when the series it
\* fetched fails validate_stock_data the call returns (None, stock_info)
\* with the metadata of that attempt, when it passes it returns the series
\* and the metadata, and no attempt follows it.
C25_NoRetryAfterFetch ==
    /\ Attempts > FailedAttempts => pc = "done"
    /\ pc = "done" /\ Attempts > FailedAttempts =>
        /\ fetched.info = stock_info
        /\ fetched.data = (IF validate_stock_data(data, cfg, pad).ok THEN data ELSE NoFrame)
        /\ calls[Len(calls)] = "validate_stock_data"

\* after a failed attempt a series that fails validation was fetched with
\* its metadata, and the call returned (None, stock_info)
C25_Witness ==
    /\ pc = "done"
    /\ FailedAttempts = 1
    /\ Attempts = 2
    /\ data = ShortFrame
    /\ ~validate_stock_data(data, cfg, pad).ok
    /\ stock_info # None
    /\ fetched = Pair(NoFrame, stock_info)

----------------------------------------------------------------------------
(* Claims about get_nse_stock_symbols. *)

\* the sources in the order they are tried
SourceOrder == <<"fetch_nse_equity_list", "get_fallback_nse_symbols", "popular_stocks">>

\* calls lists consecutive sources, in order
InSourceOrder ==
    \E a \in 1..3 : \E b \in (a - 1)..3 :
        calls = SubSeq(SourceOrder, a, b)

WebUsable == cfg.USE_WEB_FETCH /\ web_symbols.ok /\ Len(web_symbols.list) > 0

\* C23: the flag is "live_website" exactly when web fetching is enabled and
\* the web fetch returned a non-empty list; otherwise it is "first_fallback"
\* exactly when the local list is non-empty, and else "second_fallback" with
\* the built-in list; the sources are tried in that order, the web only
\* when enabled, and no source is tried after one that succeeded.
C23_SourcePriority ==
    /\ InSourceOrder
    /\ ~cfg.USE_WEB_FETCH => (\A i \in 1..Len(calls) : calls[i] # "fetch_nse_equity_list")
    /\ pc = "done" =>
        /\ data_source = "live_website" <=> WebUsable
        /\ data_source = "first_fallback" <=> ~WebUsable /\ Len(fallback_symbols) > 0
        /\ data_source = "second_fallback" <=> ~WebUsable /\ Len(fallback_symbols) = 0
        /\ data_source = "live_website" => calls = <<"fetch_nse_equity_list">>
        /\ data_source = "first_fallback" => calls[Len(calls)] = "get_fallback_nse_symbols"
        /\ data_source = "second_fallback" =>
            /\ calls[Len(calls)] = "popular_stocks"
            /\ symbols = Limited(popular_stocks, symbol_limit)

\* the web fetch was enabled and returned an empty list, and the local
\* list was used
C23_Witness ==
    /\ pc = "done"
    /\ cfg.USE_WEB_FETCH
    /\ web_symbols = WebResult(TRUE, <<>>)
    /\ calls = <<"fetch_nse_equity_list", "get_fallback_nse_symbols">>
    /\ data_source = "first_fallback"
    /\ symbols = << <<"TCS", ".NS">> >>

\* C30 as stated: for symbol_limit None or positive the list returned is
\* never empty, every symbol in it is a non-empty name with the suffix, and
\* it holds at most symbol_limit symbols.
C30_Original ==
    pc = "done" /\ (symbol_limit = None \/ symbol_limit.v > 0) =>
        /\ symbols # <<>>
        /\ \A i \in 1..Len(symbols) :
            Len(symbols[i]) = 2 /\ symbols[i][1] # "" /\ symbols[i][2] = ".NS"
        /\ symbol_limit # None => Len(symbols) <= symbol_limit.v

\* what does hold of the list: the names and the limit, not that it is
\* non-empty
SymbolsWellFormed ==
    pc = "done" =>
        /\ \A i \in 1..Len(symbols) :
            Len(symbols[i]) = 2 /\ symbols[i][1] # "" /\ symbols[i][2] = ".NS"
        /\ symbol_limit # None /\ symbol_limit.v > 0 => Len(symbols) <= symbol_limit.v
        /\ data_source = "second_fallback" /\ (symbol_limit = None \/ symbol_limit.v > 0) =>
            symbols # <<>>

----------------------------------------------------------------------------
(* Claims about fetch_multiple_stocks_complete_data and the filter. *)

Range(s) == {s[i] : i \in 1..Len(s)}

\* the futures the main thread has taken the result of
Consumed == {completed[k] : k \in 1..(IF pc = "collect" THEN processed_count - 1 ELSE processed_count)}

\* the pool is left: every future is consumed
Fetched == pc \in {"filter", "returned"}

\* the task of position i ended with an exception
TaskRaised(i) == futures[i].state = "done" /\ futures[i].raised

Included(item) ==
    LET info == item.value.info IN
    /\ info # None
    /\ info.market_cap # None
    /\ info.market_cap.v >= args.min_market_cap_cr * Crore
    /\ info.daily_volume_rs.v >= args.min_daily_volume_cr * Crore
    /\ ~item.value.data.none

\* the item is excluded by the size or liquidity criteria alone
OnlyFilteredOut(item) ==
    LET info == item.value.info IN
    /\ info # None
    /\ info.market_cap # None
    /\ \/ info.market_cap.v < args.min_market_cap_cr * Crore
       \/ info.daily_volume_rs.v < args.min_daily_volume_cr * Crore

\* C24: a symbol is included exactly when its info was fetched, its market
\* cap and its daily traded value are at least the bounds times 10^7 and
\* its validated series is present; the three outputs describe the same
\* symbols in the same order; a symbol excluded by the criteria alone is
\* not counted as failed.
C24_FilterIff ==
    pc = "returned" =>
        /\ \A k \in 1..Len(results) :
            results[k].symbol \in Range(filtered_symbols) <=> Included(results[k])
        /\ filtered_symbols = SelectSeq([k \in 1..Len(results) |-> results[k].symbol],
                                        LAMBDA sym : Included(results[Lookup(results, sym)]))
        /\ Len(stock_info_list) = Len(filtered_symbols)
        /\ DOMAIN historical_data_dict = Range(filtered_symbols)
        /\ \A i \in 1..Len(filtered_symbols) :
            /\ stock_info_list[i].symbol = filtered_symbols[i]
            /\ stock_info_list[i] = results[Lookup(results, filtered_symbols[i])].value.info
            /\ historical_data_dict[filtered_symbols[i]]
                   = results[Lookup(results, filtered_symbols[i])].value.data
            /\ validate_stock_data(historical_data_dict[filtered_symbols[i]], cfg, pad).ok
        /\ failed_count = Cardinality({k \in 1..Len(results) :
                              ~Included(results[k]) /\ ~OnlyFilteredOut(results[k])})
        /\ failed_count + Len(filtered_symbols) <= Len(results)

\* of two symbols one is included at the bounds and the other is excluded
\* by its market cap and not counted as failed
C24_Witness ==
    /\ pc = "returned"
    /\ Len(results) = 2
    /\ Len(filtered_symbols) = 1
    /\ stock_info_list[1].market_cap = Num(3 * Crore)
    /\ stock_info_list[1].daily_volume_rs = Num(Crore)
    /\ \E k \in 1..2 : OnlyFilteredOut(results[k])
    /\ failed_count = 0

----------------------------------------------------------------------------
(* Claims about the MACD crossover over consecutive bars. *)

\* C27: with the histogram equal to MACD minus signal at every defined
\* index, the prefixes ending at two consecutive bars are never given the
\* same MACD crossover; a Bullish crossover is given at bar i exactly when
\* histogram[i] > 0 and histogram[i-1] <= 0, and a Bearish one exactly when
\* histogram[i] < 0 and histogram[i-1] >= 0.
C27_EdgeTrigger ==
    /\ ~raised
    /\ \A i \in 1..Len(results) :
        /\ results[i] = <<MACDBullish>>
            <=> (i >= 2 /\ FGt(args.histogram[i], Num(0)) /\ FLe(args.histogram[i - 1], Num(0)))
        /\ results[i] = <<MACDBearish>>
            <=> (i >= 2 /\ FLt(args.histogram[i], Num(0)) /\ FGe(args.histogram[i - 1], Num(0)))
        /\ results[i] \in {<<>>, <<MACDBullish>>, <<MACDBearish>>}
    /\ \A i \in 1..(Len(results) - 1) : results[i] # <<>> => results[i + 1] # results[i]

\* the MACD line crosses above the signal line at bar 2 and stays above it
\* at bar 3: Bullish at bar 2, nothing at bar 3
C27_Witness ==
    /\ Len(results) = 3
    /\ args.histogram = <<Num(-1), Num(1), Num(1)>>
    /\ results = <<<<>>, <<MACDBullish>>, <<>>>>

----------------------------------------------------------------------------
(* Claims about the consistency of a returned record. *)

\* the signals of the record returned
KindsOf(r) == {r.signals[i].kind : i \in 1..Len(r.signals)}

Defined(x) == x # None /\ ~IsNaN(x)

\* C28: in every record analyze_stock_with_talib returns, an RSI signal
\* comes with a defined rsi below RSI_OVERSOLD (Oversold) or above
\* RSI_OVERBOUGHT (Overbought), a MACD crossover comes with defined macd and
\* macd_signal (valid_macd is true) ordered as the signal says, and
\* current_price is defined and greater than 0.
C28_RecordConsistent ==
    (pc = "done" /\ result # None) =>
        /\ "RSI Oversold" \in KindsOf(result) =>
            /\ Defined(result.rsi)
            /\ result.data_quality.valid_rsi
            /\ result.rsi.v < cfg.RSI_OVERSOLD
        /\ "RSI Overbought" \in KindsOf(result) =>
            /\ Defined(result.rsi)
            /\ result.data_quality.valid_rsi
            /\ result.rsi.v > cfg.RSI_OVERBOUGHT
        /\ "MACD Bullish Crossover" \in KindsOf(result) =>
            /\ Defined(result.macd) /\ Defined(result.macd_signal)
            /\ result.data_quality.valid_macd
            /\ result.macd.v > result.macd_signal.v
        /\ "MACD Bearish Crossover" \in KindsOf(result) =>
            /\ Defined(result.macd) /\ Defined(result.macd_signal)
            /\ result.data_quality.valid_macd
            /\ result.macd.v < result.macd_signal.v
        /\ Defined(result.current_price)
        /\ result.current_price.v > 0

\* a record with an Overbought signal and a Bearish crossover
C28_Witness ==
    /\ pc = "done"
    /\ result # None
    /\ KindsOf(result) = {"RSI Overbought", "MACD Bearish Crossover"}
    /\ result.rsi.v > cfg.RSI_OVERBOUGHT
    /\ result.macd.v < result.macd_signal.v
    /\ result.current_price.v > 0

----------------------------------------------------------------------------
(* Claims about the report of a batch without signals. *)

\* C29 as stated: a run that analysed at least one stock and found no
\* signal, and whose report met no failure of credentials, recipients or
\* SMTP, returns True.
C29_Original ==
    (/\ IsRun
     /\ pc = "returned"
     /\ total_analyzed >= 1
     /\ companies_with_signals = <<>>
     /\ Msgs(log) \cap {"Email credentials not configured",
                        "No email recipients configured",
                        "SMTP error occurred"} = {})
    => returned

\* what the code does instead: such a run never returns True, and with
\* credentials and recipients configured it ends on the missing CSV file
NoSignalRunFails ==
    (IsRun /\ pc = "returned" /\ total_analyzed >= 1 /\ companies_with_signals = <<>>) =>
        /\ ~returned
        /\ Msgs(log) \cap {"Email credentials not configured",
                           "No email recipients configured",
                           "Failed to create CSV report"} # {}
        /\ "SMTP error occurred" \notin Msgs(log)

====
